---- MODULE Spec2Model ----
\* A model of the forgot-me backend: the ingestion pipeline (storage_agent),
\* the memory store (vector_store), the event store and webhooks
\* (notif_service) and the query handler (main.query_files).
EXTENDS Integers, Sequences, FiniteSets, TLC

VARIABLES
    collection,       \* the ChromaDB collection: doc_id -> [embedding, document, metadata]
    events,           \* committed rows of the SQLite table events
    next_event_id,    \* the AUTOINCREMENT counter of events
    webhooks,         \* committed rows of the SQLite table webhooks
    next_webhook_id,  \* the AUTOINCREMENT counter of webhooks
    now,              \* the wall clock, in hours since 2026-11-01T00:00:00
    last,             \* the arguments and the result of the operation that ran last
    procs             \* the coroutines of the interleaved specification

vars == <<collection, events, next_event_id, webhooks, next_webhook_id, now, last, procs>>

-----------------------------------------------------------------------------
\* Values

\* Python None / SQL NULL.
NULL == "<null>"

DEFAULT_USER_ID == "default"

\* dict.get(key, default) on a Python dict, modelled as a function on strings.
Get(d, k, default) == IF k \in DOMAIN d THEN d[k] ELSE default

Users == {"default", "u2"}

\* The largest value the AUTOINCREMENT counter of events may reach.
MaxEventId == 2

\* Event dicts as the language model may return them: a key may be missing,
\* the date may be null, may fail to parse, may be a date or a date-time.
EvExam      == [title |-> "Exam", date |-> "2026-11-01T20:00:00", description |-> "bring id"]
EvNoTitle   == [date |-> NULL, description |-> "bring id"]
EvUntitled  == [title |-> "Untitled Event", description |-> "someday"]
EvBadDate   == [title |-> "Exam", date |-> "next friday", description |-> "bring id"]
EvTrip      == [title |-> "Trip", date |-> "2026-11-03", description |-> ""]
EvNullTitle == [title |-> NULL, date |-> NULL, description |-> "x"]

-----------------------------------------------------------------------------
\* notif_service: dates

\* datetime.fromisoformat(raw.replace("Z", "+00:00")) succeeds.
IsoParses(raw) == raw \in {"2026-11-01T20:00:00", "2026-11-03", "2026-10-31"}

\* The parsed date-time, in hours since 2026-11-01T00:00:00.
IsoHours(raw) ==
    CASE raw = "2026-11-01T20:00:00" -> 20
      [] raw = "2026-11-03" -> 48
      [] raw = "2026-10-31" -> 0 - 24

\* _parse_event_datetime returns a datetime (not None).
ParsesEventDatetime(raw) ==
    IF raw = NULL \/ raw = "" THEN FALSE ELSE IsoParses(raw)

\* now <= parsed <= now + timedelta(hours=24)
InReminderWindow(raw, clock) ==
    /\ ParsesEventDatetime(raw)
    /\ clock <= IsoHours(raw)
    /\ IsoHours(raw) <= clock + 24

-----------------------------------------------------------------------------
\* notif_service: store_events

EventTitle(e) == Get(e, "title", "Untitled Event")
EventDate(e) == Get(e, "date", NULL)
EventDescription(e) == Get(e, "description", "")

\* The dedup query written with "date = ?": NULL = NULL is not true in SQL,
\* so an undated event never counts as present.
DedupCountDateEquals(rows, user_id, title, event_date, source_path) ==
    Cardinality({r \in rows : /\ r.user_id = user_id
                              /\ r.title = title
                              /\ event_date # NULL /\ r.date = event_date
                              /\ r.source_path = source_path})

\* SELECT COUNT(*) FROM events
\* WHERE user_id = ? AND title = ? AND date IS ? AND source_path = ?
DedupCount(rows, user_id, title, event_date, source_path) ==
    Cardinality({r \in rows : /\ r.user_id = user_id
                              /\ r.title = title
                              /\ r.date = event_date
                              /\ r.source_path = source_path})

\* The columns title and description are NOT NULL: the INSERT raises.
ViolatesNotNull(title, description) == title = NULL \/ description = NULL

EventRow(id, user_id, title, event_date, description, source_file, source_path) ==
    [id |-> id, user_id |-> user_id, title |-> title, date |-> event_date,
     description |-> description, source_file |-> source_file,
     source_path |-> source_path]

\* One iteration of the loop of store_events on a connection that sees `st.rows`.
StoreOne(st, e, source_file, source_path, user_id) ==
    LET title == EventTitle(e)
        event_date == EventDate(e)
        description == EventDescription(e)
    IN  IF st.raised THEN st
        ELSE IF DedupCount(st.rows, user_id, title, event_date, source_path) > 0
             THEN st
        ELSE IF ViolatesNotNull(title, description)
             THEN [st EXCEPT !.raised = TRUE]
        ELSE [rows |-> st.rows \cup {EventRow(st.nid, user_id, title, event_date,
                                             description, source_file, source_path)},
              nid |-> st.nid + 1,
              inserted |-> Append(st.inserted,
                                  [title |-> title, date |-> event_date,
                                   description |-> description]),
              raised |-> FALSE]

RECURSIVE StoreLoop(_, _, _, _, _)
StoreLoop(st, evs, source_file, source_path, user_id) ==
    IF evs = <<>> THEN st
    ELSE StoreLoop(StoreOne(st, Head(evs), source_file, source_path, user_id),
                   Tail(evs), source_file, source_path, user_id)

\* The database part of store_events, up to and including the commit: the
\* rows and counter after it, the inserted events and whether it raised.  A
\* raise before the commit (a constraint, a locked or unreachable database)
\* closes the connection without committing: nothing is written.
StoreEventsDb(rows, nid, evs, source_file, source_path, user_id, db_fails) ==
    LET st0 == [rows |-> rows, nid |-> nid, inserted |-> <<>>, raised |-> FALSE]
        st == StoreLoop(st0, evs, source_file, source_path, user_id)
    IN  IF evs = <<>> THEN st0
        ELSE IF db_fails \/ st.raised THEN [st0 EXCEPT !.raised = TRUE]
        ELSE st

-----------------------------------------------------------------------------
\* notif_service: webhooks

\* What one call of trigger_webhooks meets: the lookup of the webhooks
\* raises, or each POST is answered below 300, answered with an error
\* status, or raises (a timeout, a refused connection).
HookOutcomes == {"delivered", "http_error", "post_raises", "lookup_raises"}

\* get_webhooks: the active webhooks of one user.
GetWebhooks(whs, user_id) == {w \in whs : w.user_id = user_id}

\* The reminder loop without the 24 hour window: every inserted event whose
\* date parses is announced.
DueRemindersAnyDate(inserted, clock) ==
    SelectSeq(inserted, LAMBDA ev : ParsesEventDatetime(ev.date))

\* The inserted events the reminder loop calls trigger_webhooks for.
DueReminders(inserted, clock) ==
    SelectSeq(inserted, LAMBDA ev : InReminderWindow(ev.date, clock))

\* The reminder loop without the try/except around it: what get_webhooks
\* raises inside trigger_webhooks leaves store_events.
ReminderLoopUnguarded(outs) == \E k \in DOMAIN outs : outs[k] = "lookup_raises"

\* The except clause around the reminder loop of store_events catches
\* whatever trigger_webhooks raises.
ReminderLoopRaises(outs) == FALSE

\* The reminder loop of store_events: `outs[k]` is what the k-th call of
\* trigger_webhooks meets.  A raising lookup leaves the loop.
RECURSIVE ReminderLoop(_, _, _, _, _)
ReminderLoop(due, outs, whs, user_id, acc) ==
    IF due = <<>> THEN acc
    ELSE LET ev == Head(due)
             out == Head(outs)
             call == [title |-> ev.title, date |-> ev.date,
                      description |-> ev.description, user_id |-> user_id]
             posts == {[url |-> w.url, title |-> ev.title, date |-> ev.date,
                        user_id |-> user_id, outcome |-> out]
                         : w \in GetWebhooks(whs, user_id)}
         IN  IF out = "lookup_raises"
             THEN [acc EXCEPT !.triggered = Append(@, call), !.failed = TRUE]
             ELSE ReminderLoop(Tail(due), Tail(outs), whs, user_id,
                     [triggered |-> Append(acc.triggered, call),
                      posted |-> acc.posted \cup posts,
                      failed |-> acc.failed \/ (posts # {} /\ out # "delivered")])

Reminders(inserted, outs, whs, user_id, clock) ==
    ReminderLoop(DueReminders(inserted, clock), outs, whs, user_id,
                 [triggered |-> <<>>, posted |-> {}, failed |-> FALSE])

\* The number of events offered in place of the number inserted.
ReturnedCountOffered(evs, inserted) == Len(evs)

\* count += 1 after each INSERT; return count
ReturnedCount(evs, inserted) == Len(inserted)

\* store_events as a whole: the new table and counter, the value returned
\* ("raised" when an exception leaves the function) and the reminders.
StoreEvents(rows, nid, evs, source_file, source_path, user_id, db_fails, outs, whs, clock) ==
    LET db == StoreEventsDb(rows, nid, evs, source_file, source_path, user_id, db_fails)
        rem == Reminders(db.inserted, outs, whs, user_id, clock)
    IN  IF db.raised
        THEN [rows |-> rows, nid |-> nid, raised |-> TRUE, count |-> 0,
              inserted |-> <<>>, triggered |-> <<>>, posted |-> {}, hook_failed |-> FALSE]
        ELSE [rows |-> db.rows, nid |-> db.nid,
              raised |-> rem.failed /\ ReminderLoopRaises(outs),
              count |-> ReturnedCount(evs, db.inserted), inserted |-> db.inserted,
              triggered |-> rem.triggered, posted |-> rem.posted,
              hook_failed |-> rem.failed]

\* save_webhook: one webhook per user, the rows of the user are replaced.
SaveWebhookRows(whs, wid, url, user_id) ==
    {w \in whs : w.user_id # user_id} \cup {[id |-> wid, user_id |-> user_id, url |-> url]}

\* delete_webhook: DELETE FROM webhooks WHERE id = ? AND user_id = ?
DeleteWebhookRows(whs, webhook_id, user_id) ==
    {w \in whs : ~(w.id = webhook_id /\ w.user_id = user_id)}

\* delete_events_by_source: DELETE FROM events WHERE source_path = ? AND user_id = ?
\* An exception (a locked or unreachable database) is swallowed: 0 is
\* returned and no row is removed.
DeleteEventsBySourceRows(rows, source_path, user_id, db_fails) ==
    IF db_fails THEN rows
    ELSE {r \in rows : ~(r.source_path = source_path /\ r.user_id = user_id)}

-----------------------------------------------------------------------------
\* Inputs of the bounded model

\* The largest value the AUTOINCREMENT counter of webhooks may reach.
MaxWebhookId == 2

EventDicts == {EvExam, EvNoTitle, EvUntitled, EvBadDate, EvTrip}

\* The events lists offered to store_events: the empty list, one event, two
\* events (the same event twice among them).
EventLists ==
    {<<>>} \cup {<<e>> : e \in EventDicts} \cup {<<e, f>> : e, f \in EventDicts}

EventPaths == {"/docs/a.txt"}

NoOp == [op |-> "init"]

-----------------------------------------------------------------------------
\* The operations of notif_service, each run to completion

StoreEventsCall(lists, files, paths, users, outcomes) ==
    \E evs \in lists, source_file \in files, source_path \in paths,
       user_id \in users, db_fails \in BOOLEAN :
      LET db == StoreEventsDb(events, next_event_id, evs, source_file, source_path,
                              user_id, db_fails)
          n == Len(DueReminders(db.inserted, now))
      IN  \E outs \in [1..n -> outcomes] :
            LET res == StoreEvents(events, next_event_id, evs, source_file,
                                   source_path, user_id, db_fails, outs, webhooks, now)
            IN  /\ res.nid <= MaxEventId + 1
                /\ (db_fails => evs # <<>>)
                /\ events' = res.rows
                /\ next_event_id' = res.nid
                /\ last' = [op |-> "store_events", user_id |-> user_id,
                            source_path |-> source_path, offered |-> Len(evs),
                            raised |-> res.raised, count |-> res.count,
                            triggered |-> res.triggered, posted |-> res.posted,
                            hook_failed |-> res.hook_failed]
                /\ UNCHANGED <<collection, webhooks, next_webhook_id, now, procs>>

SaveWebhookCall(urls, users) ==
    \E url \in urls, user_id \in users :
      /\ next_webhook_id <= MaxWebhookId
      /\ webhooks' = SaveWebhookRows(webhooks, next_webhook_id, url, user_id)
      /\ next_webhook_id' = next_webhook_id + 1
      /\ last' = [op |-> "save_webhook", user_id |-> user_id, url |-> url,
                  id |-> next_webhook_id]
      /\ UNCHANGED <<collection, events, next_event_id, now, procs>>

DeleteWebhookCall(users) ==
    \E webhook_id \in 1..MaxWebhookId, user_id \in users :
      /\ webhooks' = DeleteWebhookRows(webhooks, webhook_id, user_id)
      /\ last' = [op |-> "delete_webhook", user_id |-> user_id, id |-> webhook_id,
                  deleted |-> webhooks' # webhooks]
      /\ UNCHANGED <<collection, events, next_event_id, next_webhook_id, now, procs>>

DeleteEventsBySourceCall(paths, users) ==
    \E source_path \in paths, user_id \in users, db_fails \in BOOLEAN :
      /\ events' = DeleteEventsBySourceRows(events, source_path, user_id, db_fails)
      /\ last' = [op |-> "delete_events_by_source", user_id |-> user_id,
                  source_path |-> source_path,
                  count |-> Cardinality(events) - Cardinality(events')]
      /\ UNCHANGED <<collection, next_event_id, webhooks, next_webhook_id, now, procs>>

\* A day passes.
Tick ==
    /\ now = 10
    /\ now' = now + 24
    /\ last' = NoOp
    /\ UNCHANGED <<collection, events, next_event_id, webhooks, next_webhook_id, procs>>

\* The state after start-up: init_db has created empty tables, the
\* collection is empty, the clock reads 2026-11-01T10:00:00.
Init ==
    /\ collection = << >>
    /\ events = {}
    /\ next_event_id = 1
    /\ webhooks = {}
    /\ next_webhook_id = 1
    /\ now = 10
    /\ last = NoOp
    /\ procs = << >>

\* The event store used through its own interface, one call at a time.
NextEvents ==
    \/ StoreEventsCall(EventLists, {"a.txt"}, EventPaths, {DEFAULT_USER_ID}, {"delivered"})
    \/ StoreEventsCall({<<EvNoTitle>>, <<EvExam>>}, {"a.txt"}, EventPaths, {"u2"}, {"delivered"})
    \/ SaveWebhookCall({"https://hooks.example/a"}, {DEFAULT_USER_ID})
    \/ DeleteEventsBySourceCall(EventPaths, Users)
    \/ Tick

SpecEvents == Init /\ [][NextEvents]_vars

-----------------------------------------------------------------------------
\* Properties of the event store

SameTriple(r1, r2) ==
    /\ r1.user_id = r2.user_id
    /\ r1.title = r2.title
    /\ r1.date = r2.date
    /\ r1.source_path = r2.source_path

NoDuplicateTriples == \A r1, r2 \in events : SameTriple(r1, r2) => r1 = r2

\* Offering the same events again, for the same source_path and user, right
\* after a call that committed, changes no row.
SecondCallChangesNothing ==
    \A evs \in EventLists, user_id \in Users, source_path \in EventPaths :
      LET first == StoreEventsDb(events, next_event_id, evs, "a.txt", source_path,
                                 user_id, FALSE)
          second == StoreEventsDb(first.rows, first.nid, evs, "a.txt", source_path,
                                  user_id, FALSE)
      IN  ~first.raised =>
            /\ ~second.raised
            /\ second.rows = first.rows
            /\ second.inserted = <<>>

\* C2: after any sequence of store_events calls made one at a time, no two
\* rows of one user share (title, date, source_path), also for a null date,
\* for an event that is twice in one list and for a defaulted title; and a
\* second call with the same arguments leaves the table as the first left it.
C2_NoDuplicateEvents == NoDuplicateTriples /\ SecondCallChangesNothing

\* A call that was offered two events with the same defaulted title and null
\* date has inserted one row and skipped the other.
C2_Witness ==
    /\ last.op = "store_events"
    /\ last.offered = 2
    /\ last.count = 1
    /\ ~last.raised
    /\ \E r \in events : /\ r.title = "Untitled Event" /\ r.date = NULL
                         /\ r.user_id = last.user_id
                         /\ r.id = next_event_id - 1

\* The date of a reminder lies between the clock and 24 hours later.
DateWithinDay(d, clock) ==
    \/ d = "2026-11-01T20:00:00" /\ clock <= 20 /\ 20 <= clock + 24
    \/ d = "2026-11-03" /\ clock <= 48 /\ 48 <= clock + 24

\* C4: store_events calls trigger_webhooks, and posts to a webhook, only for
\* an event whose row this very call inserted and committed and whose date
\* parses and lies between now and now + 24 hours; the webhook posted to is
\* one of the user of the call.
C4_RemindersOnlyForNewDueEvents ==
    [][ last'.op = "store_events" =>
          /\ \A k \in 1..Len(last'.triggered) :
               LET t == last'.triggered[k]
               IN  /\ ~last'.raised
                   /\ \E r \in events' \ events :
                        /\ r.title = t.title /\ r.date = t.date
                        /\ r.user_id = last'.user_id
                        /\ r.source_path = last'.source_path
                   /\ t.user_id = last'.user_id
                   /\ DateWithinDay(t.date, now)
          /\ \A p \in last'.posted :
               /\ \E k \in 1..Len(last'.triggered) :
                    /\ last'.triggered[k].title = p.title
                    /\ last'.triggered[k].date = p.date
               /\ \E w \in webhooks : w.user_id = last'.user_id /\ w.url = p.url
          /\ (last'.count = 0 => last'.triggered = <<>> /\ last'.posted = {})
      ]_vars

\* A call has inserted two events and posted a reminder for only one of them.
C4_Witness ==
    /\ last.op = "store_events"
    /\ last.count = 2
    /\ Len(last.triggered) = 1
    /\ Cardinality(last.posted) = 1

-----------------------------------------------------------------------------
\* vector_store

\* embed_text: the embedding is a function of the embedded text alone.
EmbedText(text) == <<"all-MiniLM-L6-v2", text>>

\* collection.add in place of collection.upsert: an id that is present
\* keeps its record.
UpsertKeepsExisting(coll, doc_id, embedding, document, metadata) ==
    IF doc_id \in DOMAIN coll THEN coll
    ELSE [d \in DOMAIN coll \cup {doc_id} |->
            IF d = doc_id
            THEN [embedding |-> embedding, document |-> document, metadata |-> metadata]
            ELSE coll[d]]

\* An upsert that writes the embedding and the document and keeps the
\* metadata of a record that is present.
UpsertKeepsMetadata(coll, doc_id, embedding, document, metadata) ==
    [d \in DOMAIN coll \cup {doc_id} |->
        IF d = doc_id
        THEN [embedding |-> embedding, document |-> document,
              metadata |-> IF doc_id \in DOMAIN coll THEN coll[doc_id].metadata
                           ELSE metadata]
        ELSE coll[d]]

\* collection.upsert(ids=[doc_id], embeddings, documents, metadatas): the
\* record of doc_id is created or replaced.
Upsert(coll, doc_id, embedding, document, metadata) ==
    [d \in DOMAIN coll \cup {doc_id} |->
        IF d = doc_id
        THEN [embedding |-> embedding, document |-> document, metadata |-> metadata]
        ELSE coll[d]]

\* store_document
StoreDocument(coll, doc_id, description, metadata) ==
    Upsert(coll, doc_id, EmbedText(description), description, metadata)

\* Python None where a dict is expected.
None == [none |-> TRUE]

\* bool(s) of an optional string: None and "" are false.
Truthy(s) == s # NULL /\ s # ""

\* get_document answering a dict for an id that has no record.
GetDocumentWithoutIdCheck(coll, doc_id, user_id) ==
    IF doc_id \notin DOMAIN coll THEN [doc_id |-> doc_id]
    ELSE IF /\ Truthy(user_id)
            /\ Get(coll[doc_id].metadata, "user_id", DEFAULT_USER_ID) # user_id THEN None
    ELSE coll[doc_id].metadata

\* get_document without the comparison of the record's user_id.
GetDocumentOfAnyUser(coll, doc_id, user_id) ==
    IF doc_id \notin DOMAIN coll THEN None ELSE coll[doc_id].metadata

\* get_document: the metadata of the record with doc_id, None when there is
\* no record or it belongs to another user.
GetDocument(coll, doc_id, user_id) ==
    IF doc_id \notin DOMAIN coll THEN None
    ELSE IF /\ Truthy(user_id)
            /\ Get(coll[doc_id].metadata, "user_id", DEFAULT_USER_ID) # user_id THEN None
    ELSE coll[doc_id].metadata

\* delete_document: the collection after it and the value returned.  An
\* exception of the store is caught and False returned.
DeleteDocument(coll, doc_id, user_id, chroma_fails) ==
    IF GetDocument(coll, doc_id, user_id) = None \/ chroma_fails
    THEN [coll |-> coll, deleted |-> FALSE]
    ELSE [coll |-> [d \in DOMAIN coll \ {doc_id} |-> coll[d]], deleted |-> TRUE]

-----------------------------------------------------------------------------
\* storage_agent

MODALITY_MAP ==
    [x \in {".pdf", ".jpg", ".jpeg", ".png", ".mp3", ".m4a", ".wav", ".txt", ".md",
            ".docx", ".eml", ".ics"} |->
        CASE x = ".pdf" -> "pdf"
          [] x \in {".jpg", ".jpeg", ".png"} -> "image"
          [] x \in {".mp3", ".m4a", ".wav"} -> "audio"
          [] x \in {".txt", ".md", ".docx", ".eml"} -> "text"
          [] x = ".ics" -> "calendar"]

\* os.path.splitext(filename)[1].lower() for the file names of the model.
SplitExt(filename) ==
    CASE filename = "a.txt" -> ".txt"
      [] filename = "B.ICS" -> ".ics"
      [] OTHER -> ""

\* detect_modality
DetectModality(filename) ==
    IF SplitExt(filename) \in DOMAIN MODALITY_MAP THEN MODALITY_MAP[SplitExt(filename)]
    ELSE "text"

\* base64.b64decode(file_content_base64) returns (it raises binascii.Error
\* on "!!!not-base64!!!").
Base64Decodes(payload) == payload # "!!!not-base64!!!"

\* extract_content(b64decode(payload), ...): b"" gives "", b"  \n" gives
\* "  \n", b"Exam on Sunday" gives "Exam on Sunday".
ExtractContent(payload) ==
    CASE payload = "" -> ""
      [] payload = "ICAK" -> "  \n"
      [] payload = "RXhhbSBvbiBTdW5kYXk=" -> "Exam on Sunday"

\* The test `not content` in place of `not content.strip()`.
IsEmptyContent(content) == content = ""

\* content.strip() is empty.
StripsToEmpty(content) == content \in {"", "  \n"}

\* content[:1500]; every content of the model is shorter than that.
ContentSnippet(content) == content

\* hashlib.sha256(file_path.encode()).hexdigest()[:16]
DocId(file_path) ==
    CASE file_path = "" -> "e3b0c44298fc1c14"
      [] file_path = "/docs/a.txt" -> "f238fe284c35edf8"
      [] file_path = "/docs/b.ics" -> "629c253ab6cb53ff"

\* A reply of the language model to generate(): a JSON object, text that is
\* no JSON, JSON that is no object, or the HTTP call raises.
ObjectReply(d) == [kind |-> "object", value |-> d]
GarbageReply == [kind |-> "garbage"]
ArrayReply == [kind |-> "array"]
ErrorReply == [kind |-> "error"]

\* _parse_json(raw, fallback): the parsed value; json.loads also returns
\* values that are no dict.
ParseJson(reply, fallback) ==
    CASE reply.kind = "object" -> reply.value
      [] reply.kind = "array" -> [json_list |-> <<1, 2>>]
      [] OTHER -> fallback

\* The parsed value is a dict (it has .get), not a list.
IsDict(v) == "json_list" \notin DOMAIN v

\* generate_description
GenerateDescription(reply, filename) ==
    ParseJson(reply, [description |-> "File: " \o filename, category |-> "other",
                      summary |-> filename])

\* extract_events
ExtractEvents(reply) == ParseJson(reply, [has_events |-> FALSE, events |-> <<>>])

ValidCategories == {"work", "study", "personal", "medical", "finance", "other"}

\* A JSON array where the reply should have a string.
JsonList == "<list>"

\* hash(v) is defined: a list is not hashable, and `v not in a_set` raises
\* TypeError for it.
Hashable(v) == v # JsonList

\* The category passed on as the model gave it.
CategoryAsReturned(category) == category

\* if category not in valid_categories: category = "other"
ValidateCategory(category) == IF category \notin ValidCategories THEN "other" ELSE category

Failure(file_path, error) ==
    [success |-> FALSE, file_path |-> file_path, description |-> "", category |-> "",
     has_events |-> FALSE, error |-> error]

\* ingest_file: the collection, the events table and its counter after the
\* call, the IngestResult, and what happened on the way.  `env` holds what
\* the collaborators do: the replies of the language model, whether the
\* database fails in store_events, what each trigger_webhooks call meets.
IngestFile(coll, rows, nid, whs, clock, file_path, payload, filename, env) ==
    LET unchanged(res, calls) ==
            [coll |-> coll, rows |-> rows, nid |-> nid, result |-> res,
             llm_calls |-> calls, stored |-> FALSE, record |-> None, ev_called |-> FALSE, ev_raised |-> FALSE,
             ev_count |-> 0, triggered |-> <<>>, posted |-> {}, hook_failed |-> FALSE]
        modality == DetectModality(filename)
        content == ExtractContent(payload)
        desc_result == GenerateDescription(env.desc_reply, filename)
        description == Get(desc_result, "description", "File: " \o filename)
        category0 == Get(desc_result, "category", "other")
        summary == Get(desc_result, "summary", filename)
        category == ValidateCategory(category0)
        event_result == ExtractEvents(env.events_reply)
        has_events == Get(event_result, "has_events", FALSE)
        evs == Get(event_result, "events", <<>>)
        doc_id == DocId(file_path)
        metadata == [file_path |-> file_path, file_name |-> filename,
                     modality |-> modality, description |-> description,
                     category |-> category, timestamp |-> clock, file_date |-> clock,
                     has_events |-> has_events, summary |-> summary,
                     content_snippet |-> ContentSnippet(content)]
        coll2 == StoreDocument(coll, doc_id, description, metadata)
        record == [embedding |-> EmbedText(description), document |-> description,
                   metadata |-> metadata]
        st == StoreEvents(rows, nid, evs, filename, file_path, DEFAULT_USER_ID,
                          env.db_fails, env.outs, whs, clock)
        ok == [success |-> TRUE, file_path |-> file_path, description |-> description,
               category |-> category, has_events |-> has_events, error |-> ""]
    IN  IF ~Base64Decodes(payload)
        THEN unchanged(Failure(file_path, "Invalid base64-encoded string"), << >>)
        ELSE IF StripsToEmpty(content)
        THEN unchanged(Failure(file_path, "Could not extract any content from file"),
                       << >>)
        ELSE IF env.desc_reply.kind = "error"
        THEN unchanged(Failure(file_path, "generate_description raised"),
                       <<"generate_description">>)
        ELSE IF ~IsDict(desc_result)
        THEN unchanged(Failure(file_path, "'list' object has no attribute 'get'"),
                       <<"generate_description">>)
        ELSE IF ~Hashable(category0)
        THEN unchanged(Failure(file_path, "unhashable type: 'list'"),
                       <<"generate_description">>)
        ELSE IF env.events_reply.kind = "error"
        THEN unchanged(Failure(file_path, "extract_events raised"),
                       <<"generate_description", "extract_events">>)
        ELSE IF ~IsDict(event_result)
        THEN unchanged(Failure(file_path, "'list' object has no attribute 'get'"),
                       <<"generate_description", "extract_events">>)
        ELSE IF has_events /\ evs # <<>>
        THEN [coll |-> coll2, rows |-> st.rows, nid |-> st.nid,
              result |-> IF st.raised THEN Failure(file_path, "store_events raised") ELSE ok,
              llm_calls |-> <<"generate_description", "extract_events">>,
              stored |-> TRUE, record |-> record,
              ev_called |-> TRUE, ev_raised |-> st.raised,
              ev_count |-> st.count, triggered |-> st.triggered, posted |-> st.posted,
              hook_failed |-> st.hook_failed]
        ELSE [unchanged(ok, <<"generate_description", "extract_events">>)
                EXCEPT !.coll = coll2, !.stored = TRUE, !.record = record]

-----------------------------------------------------------------------------
\* main: DELETE /memories/{doc_id}

\* delete_memory: the collection and the events table after the call and
\* the DeleteResponse.
DeleteMemory(coll, rows, doc_id, chroma_fails, db_fails) ==
    LET doc == GetDocument(coll, doc_id, DEFAULT_USER_ID)
        file_path == Get(doc, "file_path", "")
        del == DeleteDocument(coll, doc_id, DEFAULT_USER_ID, chroma_fails)
    IN  IF doc = None
        THEN [coll |-> coll, rows |-> rows, success |-> FALSE,
              message |-> "Document not found", file_path |-> NULL]
        ELSE IF ~del.deleted
        THEN [coll |-> coll, rows |-> rows, success |-> FALSE,
              message |-> "Failed to delete from vector store", file_path |-> file_path]
        ELSE [coll |-> del.coll,
              rows |-> IF file_path # ""
                       THEN DeleteEventsBySourceRows(rows, file_path, DEFAULT_USER_ID,
                                                     db_fails)
                       ELSE rows,
              success |-> TRUE, message |-> "Deleted", file_path |-> file_path]

-----------------------------------------------------------------------------
\* The requests of the application, each run to completion

IngestPaths == {"", "/docs/a.txt"}

Payloads == {"!!!not-base64!!!", "ICAK", "RXhhbSBvbiBTdW5kYXk="}

DescReplies ==
    {ObjectReply([description |-> "Exam schedule", category |-> "study",
                  summary |-> "Exam on Sunday"]),
     GarbageReply, ErrorReply}

EventsReplies ==
    {ObjectReply([has_events |-> TRUE, events |-> <<EvExam>>]),
     ObjectReply([has_events |-> FALSE, events |-> <<>>]),
     ErrorReply}

IngestFileCall(paths, payloads, filenames, descs, evreps, outcomes) ==
    \E file_path \in paths, payload \in payloads, filename \in filenames :
    \E desc_reply \in IF Base64Decodes(payload) /\ ~StripsToEmpty(ExtractContent(payload))
                      THEN descs ELSE {GarbageReply} :
    \E events_reply \in IF Base64Decodes(payload)
                           /\ ~StripsToEmpty(ExtractContent(payload))
                           /\ desc_reply.kind \in {"object", "garbage"}
                        THEN evreps ELSE {GarbageReply} :
    \E db_fails \in IF events_reply.kind = "object" THEN BOOLEAN ELSE {FALSE} :
    \E outs \in [1..Len(IngestFile(collection, events, next_event_id, webhooks, now,
                                   file_path, payload, filename,
                                   [desc_reply |-> desc_reply,
                                    events_reply |-> events_reply,
                                    db_fails |-> db_fails,
                                    outs |-> <<"delivered">>]).triggered)
                   -> outcomes] :
      LET env == [desc_reply |-> desc_reply, events_reply |-> events_reply,
                  db_fails |-> db_fails, outs |-> outs]
          res == IngestFile(collection, events, next_event_id, webhooks, now,
                            file_path, payload, filename, env)
      IN  /\ res.nid <= MaxEventId + 1
          /\ (db_fails => res.ev_raised)
          /\ Len(outs) = Len(res.triggered)
          /\ collection' = res.coll
          /\ events' = res.rows
          /\ next_event_id' = res.nid
          /\ last' = [op |-> "ingest_file", file_path |-> file_path,
                      payload |-> payload, llm_calls |-> res.llm_calls,
                      desc_kind |-> desc_reply.kind,
                      events_kind |-> events_reply.kind, db_fails |-> db_fails,
                      result |-> res.result, stored |-> res.stored,
                      record |-> res.record,
                      replaced |-> /\ res.stored
                                   /\ DocId(file_path) \in DOMAIN collection
                                   /\ collection[DocId(file_path)] # res.record,
                      ev_called |-> res.ev_called,
                      ev_raised |-> res.ev_raised, ev_count |-> res.ev_count,
                      triggered |-> res.triggered, posted |-> res.posted,
                      hook_failed |-> res.hook_failed]
          /\ UNCHANGED <<webhooks, next_webhook_id, now, procs>>

DeleteMemoryCall(doc_ids) ==
    \E doc_id \in doc_ids, chroma_fails \in BOOLEAN, db_fails \in BOOLEAN :
      LET res == DeleteMemory(collection, events, doc_id, chroma_fails, db_fails)
      IN  /\ (chroma_fails => res.message = "Failed to delete from vector store")
          /\ (db_fails => res.success /\ res.file_path # "")
          /\ collection' = res.coll
          /\ events' = res.rows
          /\ last' = [op |-> "delete_memory", doc_id |-> doc_id,
                      success |-> res.success, message |-> res.message,
                      file_path |-> res.file_path, db_fails |-> db_fails]
          /\ UNCHANGED <<next_event_id, webhooks, next_webhook_id, now, procs>>

\* The application used through POST /ingest, DELETE /memories/{doc_id} and
\* POST /webhooks, one request at a time.
Next ==
    \/ IngestFileCall(IngestPaths, Payloads, {"a.txt"}, DescReplies,
                      EventsReplies, HookOutcomes)
    \/ DeleteMemoryCall({DocId(p) : p \in IngestPaths} \cup {"nonexistent_id"})
    \/ SaveWebhookCall({"https://hooks.example/a"}, {DEFAULT_USER_ID})

Spec == Init /\ [][Next]_vars

-----------------------------------------------------------------------------
\* Properties of ingestion and deletion

OneRecordPerFilePath ==
    \A d1, d2 \in DOMAIN collection :
      collection[d1].metadata.file_path = collection[d2].metadata.file_path => d1 = d2

\* C1: after any sequence of ingest_file calls the store holds at most one
\* record per file_path, under the doc_id computed from the file_path alone;
\* an ingestion that stores leaves embedding, document and metadata of the
\* record exactly as this ingestion computed them, leaves every other record
\* alone, and does not change the number of records when the file_path had
\* one already.
C1_OneRecordPerPathFullyReplaced ==
    /\ [](OneRecordPerFilePath)
    /\ [](\A d \in DOMAIN collection : d = DocId(collection[d].metadata.file_path))
    /\ [][ (last'.op = "ingest_file" /\ last'.stored) =>
             LET doc_id == DocId(last'.file_path)
             IN  /\ doc_id \in DOMAIN collection'
                 /\ collection'[doc_id] = last'.record
                 /\ last'.record.metadata.file_path = last'.file_path
                 /\ DOMAIN collection' = DOMAIN collection \cup {doc_id}
                 /\ \A d \in DOMAIN collection \ {doc_id} : collection'[d] = collection[d]
                 /\ (doc_id \in DOMAIN collection =>
                       Cardinality(DOMAIN collection') = Cardinality(DOMAIN collection))
         ]_vars

\* An ingestion has replaced a different record of the same file_path while
\* another file_path has a record too.
C1_Witness ==
    /\ last.op = "ingest_file"
    /\ last.replaced
    /\ Cardinality(DOMAIN collection) = 2
    /\ collection[DocId(last.file_path)] = last.record

\* C5: a failing webhook delivery (the POST raises or is answered with an
\* error status, or the lookup of the webhooks raises) aborts nothing:
\* store_events returns the number of rows it inserted, the rows are
\* committed, and ingest_file returns success=true.
C5_WebhookFailureAbortsNothing ==
    [][ (last'.op = "ingest_file" /\ last'.hook_failed) =>
          /\ ~last'.ev_raised
          /\ last'.ev_count = Cardinality(events' \ events)
          /\ last'.ev_count >= 1
          /\ events \subseteq events'
          /\ last'.result.success
          /\ last'.result.error = ""
      ]_vars

\* An ingestion whose lookup of the webhooks raised has succeeded.
C5_WitnessLookup ==
    /\ last.op = "ingest_file"
    /\ last.hook_failed
    /\ last.posted = {}
    /\ last.triggered # <<>>
    /\ last.result.success

\* C10 as claimed: after delete_memory reports success the record is gone,
\* no event row of the default user with the source_path of the deleted
\* document is left, and every other event row and record is unchanged.
C10_DeleteCascades ==
    [][ (last'.op = "delete_memory" /\ last'.success) =>
          LET doc_id == last'.doc_id
              file_path == collection[doc_id].metadata.file_path
          IN  /\ doc_id \notin DOMAIN collection'
              /\ \A r \in events' :
                   ~(r.user_id = DEFAULT_USER_ID /\ r.source_path = file_path)
              /\ events' \subseteq events
              /\ \A r \in events :
                   (r.source_path # file_path \/ r.user_id # DEFAULT_USER_ID)
                     => r \in events'
              /\ \A d \in DOMAIN collection \ {doc_id} :
                   d \in DOMAIN collection' /\ collection'[d] = collection[d]
      ]_vars

\* C11: delete_memory for a doc_id that has no record answers success=false
\* and leaves the collection and the events table as they were.
C11_DeleteOfMissingDocChangesNothing ==
    [][ (last'.op = "delete_memory" /\ last'.doc_id \notin DOMAIN collection) =>
          /\ last'.success = FALSE
          /\ last'.message = "Document not found"
          /\ collection' = collection
          /\ events' = events
      ]_vars

\* A delete of an unknown id was refused while records and events exist.
C11_Witness ==
    /\ last.op = "delete_memory"
    /\ last.doc_id = "nonexistent_id"
    /\ ~last.success
    /\ collection # << >>
    /\ events # {}

-----------------------------------------------------------------------------
\* store_events run by coroutines that interleave at their awaits.  Each
\* call has its own connection (aiosqlite.connect): a SELECT sees the
\* committed rows and the rows this connection has inserted; the first
\* INSERT of a connection opens its write transaction, and SQLite admits
\* one writer at a time: another connection's INSERT waits for the commit
\* and raises "database is locked" when the wait times out.

Coroutines == {1, 2}

ConcurrentLists == {<<EvExam>>, <<EvNoTitle, EvUntitled>>, <<EvExam, EvNullTitle>>}

Idle == [pc |-> "idle"]

\* The rows the connection of coroutine p sees.
Visible(p) == events \cup procs[p].own

\* Another connection has an open write transaction.
WriteLocked(p) ==
    \E q \in Coroutines \ {p} : procs[q].pc \in {"select", "insert", "commit"}
                                 /\ procs[q].own # {}

\* After the event at position i: the next SELECT, or the commit.
AfterEvent(c) ==
    IF c.i < Len(c.evs) THEN [c EXCEPT !.i = c.i + 1, !.pc = "select"]
    ELSE [c EXCEPT !.pc = "commit"]

\* store_events is called: an empty list returns 0 at once.
CoBegin(p) ==
    /\ procs[p].pc \in {"idle", "done", "raised"}
    /\ \E evs \in ConcurrentLists \cup {<<>>}, user_id \in {DEFAULT_USER_ID} :
         procs' = [procs EXCEPT ![p] =
            [pc |-> IF evs = <<>> THEN "done" ELSE "select",
             evs |-> evs, i |-> 1, user_id |-> user_id,
             source_file |-> "a.txt", source_path |-> "/docs/a.txt",
             own |-> {}, nid |-> 0, inserted |-> <<>>, count |-> 0,
             triggered |-> <<>>]]
    /\ UNCHANGED <<collection, events, next_event_id, webhooks, next_webhook_id, now, last>>

\* await db.execute(SELECT COUNT(*) ...); row[0] > 0 skips the event.
CoSelect(p) ==
    LET c == procs[p]
        e == c.evs[c.i]
    IN  /\ c.pc = "select"
        /\ procs' = [procs EXCEPT ![p] =
              IF DedupCount(Visible(p), c.user_id, EventTitle(e), EventDate(e),
                            c.source_path) > 0
              THEN AfterEvent(c)
              ELSE [c EXCEPT !.pc = "insert"]]
        /\ UNCHANGED <<collection, events, next_event_id, webhooks, next_webhook_id, now, last>>

\* await db.execute(INSERT ...): the row is written in the transaction of
\* this connection; a NOT NULL violation raises and the connection closes
\* without a commit.
CoInsert(p) ==
    LET c == procs[p]
        e == c.evs[c.i]
        nid == IF c.own = {} THEN next_event_id ELSE c.nid
        row == EventRow(nid, c.user_id, EventTitle(e), EventDate(e),
                        EventDescription(e), c.source_file, c.source_path)
    IN  /\ c.pc = "insert"
        /\ ~WriteLocked(p)
        /\ nid <= MaxEventId
        /\ procs' = [procs EXCEPT ![p] =
              IF ViolatesNotNull(EventTitle(e), EventDescription(e))
              THEN [c EXCEPT !.pc = "raised", !.own = {}, !.inserted = <<>>]
              ELSE AfterEvent([c EXCEPT !.own = @ \cup {row}, !.nid = nid + 1,
                                        !.inserted = Append(@,
                                            [title |-> row.title, date |-> row.date,
                                             description |-> row.description]),
                                        !.count = @ + 1])]
        /\ UNCHANGED <<collection, events, next_event_id, webhooks, next_webhook_id, now, last>>

\* The INSERT waits for the writer longer than the busy timeout:
\* sqlite3.OperationalError leaves store_events.
CoLockTimeout(p) ==
    /\ procs[p].pc = "insert"
    /\ WriteLocked(p)
    /\ procs' = [procs EXCEPT ![p] = [@ EXCEPT !.pc = "raised", !.own = {},
                                                !.inserted = <<>>]]
    /\ UNCHANGED <<collection, events, next_event_id, webhooks, next_webhook_id, now, last>>

\* await db.commit()
CoCommit(p) ==
    LET c == procs[p]
    IN  /\ c.pc = "commit"
        /\ events' = events \cup c.own
        /\ next_event_id' = IF c.own = {} THEN next_event_id ELSE c.nid
        /\ procs' = [procs EXCEPT ![p] = [c EXCEPT !.pc = "remind", !.own = {}]]
        /\ UNCHANGED <<collection, webhooks, next_webhook_id, now, last>>

\* The reminder loop, then return count.
CoRemind(p) ==
    LET c == procs[p]
        n == Len(DueReminders(c.inserted, now))
    IN  /\ c.pc = "remind"
        /\ \E outs \in [1..n -> {"delivered", "lookup_raises"}] :
             procs' = [procs EXCEPT ![p] =
                [c EXCEPT !.pc = "done",
                          !.triggered = Reminders(c.inserted, outs, webhooks,
                                                  c.user_id, now).triggered]]
        /\ UNCHANGED <<collection, events, next_event_id, webhooks, next_webhook_id, now, last>>

InitConcurrent ==
    /\ collection = << >>
    /\ events = {}
    /\ next_event_id = 1
    /\ webhooks = {}
    /\ next_webhook_id = 1
    /\ now = 10
    /\ last = NoOp
    /\ procs = [p \in Coroutines |-> Idle]

NextConcurrent ==
    \E p \in Coroutines :
      \/ CoBegin(p)
      \/ CoSelect(p)
      \/ CoInsert(p)
      \/ CoLockTimeout(p)
      \/ CoCommit(p)
      \/ CoRemind(p)

SpecConcurrent == InitConcurrent /\ [][NextConcurrent]_vars

\* C3 as claimed: with store_events calls interleaved at their awaits, every
\* reachable state has at most one committed row for a (user_id, title, date,
\* source_path).
C3_NoDuplicateEventsConcurrently == NoDuplicateTriples

-----------------------------------------------------------------------------
\* POST /query: query_documents, the relevance filter, answer_query and
\* verify_answer.  Distances are counted in hundredths.

ABSOLUTE_CEILING == 150

RELATIVE_BAND == 25

MISSING_DISTANCE == 200

Min2(a, b) == IF a < b THEN a ELSE b

Max2(a, b) == IF a > b THEN a ELSE b

Questions == {"when is the exam?", "what did I save?", "quantum chromodynamics",
              "holiday?"}

\* The cosine distance collection.query computes between the embedding of
\* the question and the embedding of a record, as a table over the texts of
\* this model.
CosineDistance(qe, de) ==
    LET q == qe[2]
        d == de[2]
    IN  CASE q = "when is the exam?" ->
               (CASE d = "exam schedule" -> 20
                  [] d = "lecture notes" -> 30
                  [] OTHER -> 50)
          [] q = "what did I save?" -> 5
          [] q = "quantum chromodynamics" ->
               (CASE d = "exam schedule" -> 160
                  [] d = "lecture notes" -> 151
                  [] OTHER -> 190)
          [] OTHER ->
               (CASE d = "exam schedule" -> 176
                  [] d = "lecture notes" -> 175
                  [] OTHER -> 150)

\* _where_with_user(user_id) as collection.query applies it: a record
\* matches when its metadata has the key user_id with that value.
MatchesUser(coll, doc_id, user_id) ==
    /\ "user_id" \in DOMAIN coll[doc_id].metadata
    /\ coll[doc_id].metadata.user_id = user_id

\* meta = metadata.copy(); meta["distance"], meta["document"], meta["doc_id"]
ResultDoc(coll, doc_id, qe) ==
    LET m == coll[doc_id].metadata
    IN  [k \in DOMAIN m \cup {"distance", "document", "doc_id"} |->
            CASE k = "distance" -> CosineDistance(qe, coll[doc_id].embedding)
              [] k = "document" -> coll[doc_id].document
              [] k = "doc_id" -> doc_id
              [] OTHER -> m[k]]

\* query_documents: the result lists collection.query may return, which are
\* the n_results nearest matching records in ascending order of distance,
\* records at equal distance in any order.
QueryDocuments(coll, question, top_k, user_id) ==
    LET total_count == Cardinality(DOMAIN coll)
        n_results == Min2(Max2(top_k, 1), total_count)
        qe == EmbedText(question)
        matching == {d \in DOMAIN coll : MatchesUser(coll, d, user_id)}
        n == Min2(n_results, Cardinality(matching))
        dist(d) == CosineDistance(qe, coll[d].embedding)
    IN  IF total_count = 0 THEN {<< >>}
        ELSE {[i \in 1..n |-> ResultDoc(coll, ids[i], qe)] :
                ids \in {s \in [1..n -> matching] :
                    /\ \A i, j \in 1..n : i < j => s[i] # s[j] /\ dist(s[i]) <= dist(s[j])
                    /\ \A d \in matching \ {s[i] : i \in 1..n} :
                          \A i \in 1..n : dist(s[i]) <= dist(d)}}

\* Replies of the model to the verification prompt, as their characters.
YesNoReplies ==
    { <<"Y", "E", "S">>,
      <<" ", "y", "e", "s", "\n">>,
      <<"Y", "e", "s", ",", " ", "i", "t", " ", "i", "s">>,
      <<"N", "O">>,
      <<"n", "o", ":", " ", "y", "e", "s">>,
      <<"\t", "Y", "E">>,
      <<" ", "\n">>,
      << >> }

Whitespace == {" ", "\n", "\t"}

RECURSIVE LStrip(_)
LStrip(s) == IF s # << >> /\ Head(s) \in Whitespace THEN LStrip(Tail(s)) ELSE s

RECURSIVE RStrip(_)
RStrip(s) ==
    IF s # << >> /\ s[Len(s)] \in Whitespace THEN RStrip(SubSeq(s, 1, Len(s) - 1)) ELSE s

\* str.strip()
Strip(s) == RStrip(LStrip(s))

\* str.upper() on the letters of the replies
UpperChar(c) ==
    CASE c = "y" -> "Y" [] c = "e" -> "E" [] c = "s" -> "S" [] c = "n" -> "N"
      [] c = "o" -> "O" [] c = "i" -> "I" [] c = "t" -> "T" [] OTHER -> c

Upper(s) == [i \in 1..Len(s) |-> UpperChar(s[i])]

\* str.startswith(prefix)
StartsWith(s, prefix) ==
    Len(s) >= Len(prefix) /\ SubSeq(s, 1, Len(prefix)) = prefix

\* The reply has to be YES and nothing else.
VerifyAnswerExactly(raw) == Upper(Strip(raw)) = <<"Y", "E", "S">>

\* verify_answer: raw.strip().upper().startswith("YES")
VerifyAnswer(raw) == StartsWith(Upper(Strip(raw)), <<"Y", "E", "S">>)

\* SourceFile(file_name=doc.get("file_name", "unknown"), ...)
SourceFile(doc) ==
    [file_name |-> Get(doc, "file_name", "unknown"),
     file_path |-> Get(doc, "file_path", ""),
     description |-> Get(doc, "description", ""),
     category |-> Get(doc, "category", ""),
     modality |-> Get(doc, "modality", ""),
     doc_id |-> Get(doc, "doc_id", ""),
     thumbnail |-> Get(doc, "thumbnail", ""),
     content_snippet |-> Get(doc, "content_snippet", "")]

\* The response of query_files when query_documents returns nothing with
\* verified=False.
EmptyStoreReplyUnverified ==
    [answer |-> <<"I couldn't find relevant information in your files. Try ingesting some files first.">>,
     sources |-> << >>,
     verified |-> FALSE]

\* The response of query_files when query_documents returns nothing.  An
\* answer is the sequence of the texts it is concatenated from.
EmptyStoreReply ==
    [answer |-> <<"I couldn't find relevant information in your files. Try ingesting some files first.">>,
     sources |-> << >>,
     verified |-> TRUE]

\* The response of query_files when best_distance > 1.5.
CeilingReply ==
    [answer |-> <<"I couldn't find relevant information in your files.">>,
     sources |-> << >>,
     verified |-> TRUE]

\* The text appended to an answer that is not verified (after its warning
\* sign).
CAVEAT ==
    "\n\n Note: This answer may not be fully grounded in your files. Please verify the information."

\* The filter with < in place of <=.
RelevantDocsBelowBand(docs, best_distance) ==
    SelectSeq(docs, LAMBDA d :
        Get(d, "distance", MISSING_DISTANCE) < best_distance + RELATIVE_BAND)

\* relevant_docs = [d for d in docs if d.get("distance", 2.0) <= best_distance + 0.25]
RelevantDocs(docs, best_distance) ==
    SelectSeq(docs, LAMBDA d :
        Get(d, "distance", MISSING_DISTANCE) <= best_distance + RELATIVE_BAND)

\* query_files on the result of query_documents.  llm is how the calls of
\* the model go: generate raises what httpx raises, and the request fails.
QueryFiles(docs, answer_reply, verify_reply, llm) ==
    IF docs = << >>
    THEN [raised |-> FALSE, response |-> EmptyStoreReply, llm_calls |-> << >>]
    ELSE
    LET best_distance == Get(docs[1], "distance", MISSING_DISTANCE)
        relevant_docs == RelevantDocs(docs, best_distance)
        sources == [i \in 1..Len(relevant_docs) |-> SourceFile(relevant_docs[i])]
        verified == VerifyAnswer(verify_reply)
    IN  IF best_distance > ABSOLUTE_CEILING
        THEN [raised |-> FALSE, response |-> CeilingReply, llm_calls |-> << >>]
        ELSE IF llm = "answer_raises"
        THEN [raised |-> TRUE, response |-> None, llm_calls |-> <<"answer_query">>]
        ELSE IF llm = "verify_raises"
        THEN [raised |-> TRUE, response |-> None,
              llm_calls |-> <<"answer_query", "verify_answer">>]
        ELSE [raised |-> FALSE,
              response |-> [answer |-> IF verified THEN <<answer_reply>>
                                       ELSE <<answer_reply, CAVEAT>>,
                            sources |-> sources,
                            verified |-> verified],
              llm_calls |-> <<"answer_query", "verify_answer">>]

\* Records for store_document: three of the default user, one of another
\* user, one whose metadata has no user_id (what ingest_file writes).
DocumentEntries ==
    { [doc_id |-> "d1", description |-> "exam schedule",
       metadata |-> [file_name |-> "exam.ics", file_path |-> "/docs/exam.ics",
                     description |-> "exam schedule", user_id |-> "default"]],
      [doc_id |-> "d2", description |-> "lecture notes",
       metadata |-> [file_name |-> "notes.txt", file_path |-> "/docs/notes.txt",
                     description |-> "lecture notes", user_id |-> "default"]],
      [doc_id |-> "d3", description |-> "holiday photo",
       metadata |-> [file_name |-> "beach.jpg", file_path |-> "/docs/beach.jpg",
                     description |-> "holiday photo", user_id |-> "default"]],
      [doc_id |-> "d4", description |-> "exam schedule",
       metadata |-> [file_name |-> "exam.ics", file_path |-> "/u2/exam.ics",
                     description |-> "exam schedule", user_id |-> "u2"]],
      [doc_id |-> "d5", description |-> "lecture notes",
       metadata |-> [file_name |-> "notes.txt", file_path |-> "/docs/a.txt",
                     description |-> "lecture notes"]] }

TopKs == {0, 2, 5}

AnswerReplies == {"The exam is on Sunday."}

StoreDocumentCall(entries) ==
    /\ \E e \in entries :
         /\ collection' = StoreDocument(collection, e.doc_id, e.description, e.metadata)
         /\ last' = [op |-> "store_document", doc_id |-> e.doc_id]
    /\ UNCHANGED <<events, next_event_id, webhooks, next_webhook_id, now, procs>>

QueryFilesCall(questions, top_ks, answer_replies, verify_replies) ==
    /\ \E question \in questions, top_k \in top_ks :
       \E docs \in QueryDocuments(collection, question, top_k, DEFAULT_USER_ID) :
         LET short == \/ docs = << >>
                      \/ Get(docs[1], "distance", MISSING_DISTANCE) > ABSOLUTE_CEILING
         IN  \E llm \in IF short THEN {"ok"} ELSE {"ok", "answer_raises", "verify_raises"} :
             \E answer_reply \in IF short \/ llm = "answer_raises" THEN {""}
                                 ELSE answer_replies :
             \E verify_reply \in IF short \/ llm # "ok" THEN {<< >>} ELSE verify_replies :
               LET res == QueryFiles(docs, answer_reply, verify_reply, llm)
               IN  last' = [op |-> "query_files", question |-> question,
                            top_k |-> top_k,
                            total_count |-> Cardinality(DOMAIN collection),
                            docs |-> docs, answer_reply |-> answer_reply,
                            verify_reply |-> verify_reply, raised |-> res.raised,
                            response |-> res.response, llm_calls |-> res.llm_calls]
    /\ UNCHANGED <<collection, events, next_event_id, webhooks, next_webhook_id, now, procs>>

NextQuery ==
    \/ StoreDocumentCall(DocumentEntries)
    \/ QueryFilesCall(Questions, TopKs, AnswerReplies, YesNoReplies)

SpecQuery == Init /\ [][NextQuery]_vars

Distances(docs) == [i \in 1..Len(docs) |-> docs[i].distance]

SourceIds(response) == [j \in 1..Len(response.sources) |-> response.sources[j].doc_id]

\* The smallest distance among all returned results.
SmallestDistance(docs) ==
    CHOOSE m \in {docs[i].distance : i \in 1..Len(docs)} :
        \A i \in 1..Len(docs) : m <= docs[i].distance

\* The doc ids of the results at most 0.25 above the smallest distance, in
\* the order of the results.
RetainedIds(docs) ==
    LET kept == SelectSeq(docs, LAMBDA d : d.distance <= SmallestDistance(docs) + 25)
    IN  [i \in 1..Len(kept) |-> kept[i].doc_id]

\* C6 as claimed: a query whose best distance is above the ceiling gets the
\* response of the empty store, the same answer text, verified=true and no
\* sources, and no call of the model is made.
C6_CeilingReplyIsEmptyStoreReply ==
    (/\ last.op = "query_files"
     /\ last.docs # << >>
     /\ last.docs[1].distance > 150)
    => /\ ~last.raised
       /\ last.llm_calls = << >>
       /\ last.response =
            [answer |-> <<"I couldn't find relevant information in your files. Try ingesting some files first.">>,
             sources |-> << >>, verified |-> TRUE]

\* C7: when the best distance is within the ceiling, the sources of the
\* response are exactly the results whose distance is at most the smallest
\* distance of all results plus 0.25: [0.2, 0.3, 0.5] keeps the first two and
\* [0.05, 0.05, 0.05] all three; the sources are never empty and hold the
\* best match.
C7_SourcesAreResultsWithinBand ==
    (/\ last.op = "query_files"
     /\ last.docs # << >>
     /\ SmallestDistance(last.docs) <= 150
     /\ ~last.raised)
    => LET docs == last.docs
           ids == SourceIds(last.response)
       IN  /\ ids = RetainedIds(docs)
           /\ ids # << >>
           /\ \E i \in 1..Len(docs) :
                /\ docs[i].distance = SmallestDistance(docs)
                /\ \E j \in 1..Len(ids) : ids[j] = docs[i].doc_id
           /\ Distances(docs) = <<20, 30, 50>> => ids = <<docs[1].doc_id, docs[2].doc_id>>
           /\ Distances(docs) = <<5, 5, 5>> => Len(ids) = 3

\* Results at 0.2, 0.3 and 0.5 were filtered to the first two.
C7_Witness ==
    /\ last.op = "query_files"
    /\ ~last.raised
    /\ Distances(last.docs) = <<20, 30, 50>>
    /\ SourceIds(last.response) = <<"d1", "d2">>

\* C8: a query with zero documents in the store gets the fixed answer with
\* verified=true and no sources; the request does not fail and the model is
\* not called.
C8_EmptyStoreAnswer ==
    (last.op = "query_files" /\ last.total_count = 0)
    => /\ ~last.raised
       /\ last.llm_calls = << >>
       /\ last.response.verified = TRUE
       /\ last.response.sources = << >>
       /\ last.response.answer =
            <<"I couldn't find relevant information in your files. Try ingesting some files first.">>

C8_Witness ==
    /\ last.op = "query_files"
    /\ last.total_count = 0
    /\ collection = << >>
    /\ last.response.sources = << >>

\* The reply, without the whitespace it begins with, begins with the letters
\* y, e, s in either case.
SaysYes(raw) ==
    \E k \in 0..Len(raw) :
        /\ \A i \in 1..k : raw[i] \in Whitespace
        /\ Len(raw) >= k + 3
        /\ raw[k + 1] \in {"Y", "y"}
        /\ raw[k + 2] \in {"E", "e"}
        /\ raw[k + 3] \in {"S", "s"}

\* C9: verification is advisory.  When both calls of the model return, the
\* response is verified exactly when the verification reply, trimmed and
\* upper-cased, starts with YES; a verified answer is the answer of the model
\* unchanged, an unverified one is that answer with the caveat appended; in
\* both cases the sources are the retained results.
C9_VerificationIsAdvisory ==
    (/\ last.op = "query_files"
     /\ ~last.raised
     /\ last.llm_calls = <<"answer_query", "verify_answer">>)
    => /\ last.response.verified = SaysYes(last.verify_reply)
       /\ SaysYes(last.verify_reply) => last.response.answer = <<last.answer_reply>>
       /\ ~SaysYes(last.verify_reply) =>
            /\ Len(last.response.answer) = 2
            /\ last.response.answer[1] = last.answer_reply
            /\ last.response.answer[2] = CAVEAT
       /\ SourceIds(last.response) = RetainedIds(last.docs)
       /\ last.response.sources # << >>

\* A reply that mentions yes without starting with it: the answer came back
\* with the caveat and verified=false.
C9_Witness ==
    /\ last.op = "query_files"
    /\ ~last.raised
    /\ last.verify_reply = <<"n", "o", ":", " ", "y", "e", "s">>
    /\ last.response.verified = FALSE
    /\ Len(last.response.answer) = 2
    /\ Len(last.response.sources) = 2

-----------------------------------------------------------------------------
\* notif_service: get_upcoming_events, delete_event, delete_past_events.
\* The date column is TEXT: SQLite compares date with today's ISO date byte
\* by byte.

EvPast == [title |-> "Dentist", date |-> "2026-10-31", description |-> "checkup"]

EvDayFirst == [title |-> "Party", date |-> "1 Dec 2026", description |-> ""]

\* The characters of the date strings of the model.
Characters(str) ==
    CASE str = "2026-11-01T20:00:00" ->
           <<"2","0","2","6","-","1","1","-","0","1","T","2","0",":","0","0",":","0","0">>
      [] str = "2026-11-03" -> <<"2","0","2","6","-","1","1","-","0","3">>
      [] str = "2026-10-31" -> <<"2","0","2","6","-","1","0","-","3","1">>
      [] str = "2026-11-01" -> <<"2","0","2","6","-","1","1","-","0","1">>
      [] str = "2026-11-02" -> <<"2","0","2","6","-","1","1","-","0","2">>
      [] str = "next friday" -> <<"n","e","x","t"," ","f","r","i","d","a","y">>
      [] str = "1 Dec 2026" -> <<"1"," ","D","e","c"," ","2","0","2","6">>

\* The characters above in the order of their code points.
CodePointOrder ==
    <<" ", "-", "0", "1", "2", "3", "6", ":", "D", "T", "a", "c", "d", "e", "f", "i",
      "n", "r", "t", "x", "y">>

CodePointRank(c) == CHOOSE i \in 1..Len(CodePointOrder) : CodePointOrder[i] = c

\* memcmp order of two texts (the BINARY collation).
RECURSIVE CharsLess(_, _)
CharsLess(a, b) ==
    IF b = << >> THEN FALSE
    ELSE IF a = << >> THEN TRUE
    ELSE IF Head(a) # Head(b) THEN CodePointRank(Head(a)) < CodePointRank(Head(b))
    ELSE CharsLess(Tail(a), Tail(b))

TextLess(x, y) == CharsLess(Characters(x), Characters(y))

\* date.today().isoformat() at the clock readings of the model.
Today(clock) == IF clock < 24 THEN "2026-11-01" ELSE "2026-11-02"

\* WHERE user_id = ? AND (date IS NULL OR date >= ?)
IsUpcomingRow(r, user_id, today) ==
    r.user_id = user_id /\ (r.date = NULL \/ ~TextLess(r.date, today))

\* ORDER BY CASE WHEN date IS NULL THEN 1 ELSE 0 END, date ASC: r may not
\* come after q.
OrderedBefore(r, q) ==
    IF r.date = NULL THEN q.date = NULL
    ELSE q.date = NULL \/ ~TextLess(q.date, r.date)

\* The dict built from a selected row.
UpcomingDict(r) ==
    [id |-> r.id, title |-> r.title, date |-> r.date, description |-> r.description,
     source_file |-> r.source_file, source_path |-> r.source_path]

\* get_upcoming_events: the lists the query may return; rows the ORDER BY
\* does not tell apart come in any order.
GetUpcomingEvents(rows, user_id, clock) ==
    LET sel == {r \in rows : IsUpcomingRow(r, user_id, Today(clock))}
        n == Cardinality(sel)
    IN  {[i \in 1..n |-> UpcomingDict(s[i])] :
            s \in {t \in [1..n -> sel] :
                     \A i, j \in 1..n : i < j => t[i] # t[j] /\ OrderedBefore(t[i], t[j])}}

\* DELETE FROM events WHERE id = ? with no user_id condition.
DeleteEventRowsAnyUser(rows, event_id, user_id, db_fails) ==
    IF db_fails THEN rows
    ELSE {r \in rows : r.id # event_id}

\* delete_event: DELETE FROM events WHERE id = ? AND user_id = ?; an exception
\* is swallowed and False returned.
DeleteEventRows(rows, event_id, user_id, db_fails) ==
    IF db_fails THEN rows
    ELSE {r \in rows : ~(r.id = event_id /\ r.user_id = user_id)}

\* delete_past_events: DELETE FROM events WHERE user_id = ? AND date IS NOT NULL
\* AND date < ?; an exception is swallowed and 0 returned.
DeletePastEventsRows(rows, user_id, clock, db_fails) ==
    IF db_fails THEN rows
    ELSE {r \in rows :
            ~(r.user_id = user_id /\ r.date # NULL /\ TextLess(r.date, Today(clock)))}

\* main.delete_event: EventDeleteResponse(success=deleted,
\* deleted_count=1 if deleted else 0)
DeleteEventResponse(deleted) ==
    [success |-> deleted, deleted_count |-> IF deleted THEN 1 ELSE 0]

DeleteEventCall(users) ==
    \E event_id \in 1..MaxEventId, user_id \in users, db_fails \in BOOLEAN :
      /\ events' = DeleteEventRows(events, event_id, user_id, db_fails)
      /\ last' = [op |-> "delete_event", user_id |-> user_id, id |-> event_id,
                  deleted |-> events' # events,
                  response |-> DeleteEventResponse(events' # events)]
      /\ UNCHANGED <<collection, next_event_id, webhooks, next_webhook_id, now, procs>>

DeletePastEventsCall(users) ==
    \E user_id \in users, db_fails \in BOOLEAN :
      /\ events' = DeletePastEventsRows(events, user_id, now, db_fails)
      /\ last' = [op |-> "delete_past_events", user_id |-> user_id,
                  count |-> Cardinality(events) - Cardinality(events')]
      /\ UNCHANGED <<collection, next_event_id, webhooks, next_webhook_id, now, procs>>

GetUpcomingEventsCall(users) ==
    \E user_id \in users :
      \E result \in GetUpcomingEvents(events, user_id, now) :
        /\ last' = [op |-> "get_upcoming_events", user_id |-> user_id,
                    result |-> result]
        /\ UNCHANGED <<collection, events, next_event_id, webhooks, next_webhook_id,
                       now, procs>>

CalendarLists ==
    {<<e>> : e \in {EvExam, EvNoTitle, EvTrip, EvBadDate, EvPast, EvDayFirst}}

\* The event store of two users: events are stored, listed and deleted, and
\* a day passes.
NextCalendar ==
    \/ StoreEventsCall(CalendarLists, {"a.txt"}, EventPaths, {DEFAULT_USER_ID}, {"delivered"})
    \/ StoreEventsCall({<<EvNoTitle>>, <<EvExam>>}, {"a.txt"}, EventPaths, {"u2"}, {"delivered"})
    \/ DeleteEventCall(Users)
    \/ DeleteEventsBySourceCall(EventPaths, Users)
    \/ DeletePastEventsCall(Users)
    \/ GetUpcomingEventsCall(Users)
    \/ Tick

SpecCalendar == Init /\ [][NextCalendar]_vars

-----------------------------------------------------------------------------
\* Properties of the event store of two users

RowsOfOthers(rows, user_id) == {r \in rows : r.user_id # user_id}

\* What store_events inserts for a user does not depend on the rows of the
\* other users.
DedupIgnoresOtherUsers ==
    \A evs \in CalendarLists, u \in Users :
        LET all == StoreEventsDb(events, next_event_id, evs, "a.txt", "/docs/a.txt",
                                 u, FALSE)
            own == StoreEventsDb(events \ RowsOfOthers(events, u), next_event_id, evs,
                                 "a.txt", "/docs/a.txt", u, FALSE)
        IN  all.inserted = own.inserted /\ all.raised = own.raised

UpcomingOnlyOwnRows ==
    last.op = "get_upcoming_events" =>
        \A i \in 1..Len(last.result) :
            \E r \in events : r.id = last.result[i].id /\ r.user_id = last.user_id

\* C12: an operation of the event store for user u leaves the rows of every
\* other user unchanged; the dedup check for u ignores rows of other users,
\* so one (title, date, source_path) stored for two users gives a row each;
\* get_upcoming_events(u) returns rows of u only.
C12_EventPartitionsIsolated ==
    /\ [](DedupIgnoresOtherUsers /\ UpcomingOnlyOwnRows)
    /\ [][ last'.op \in {"store_events", "delete_event", "delete_events_by_source",
                         "delete_past_events"}
           => RowsOfOthers(events', last'.user_id) = RowsOfOthers(events, last'.user_id)
        ]_vars

\* The same (title, date, source_path) was stored for the second user while
\* the first user's row existed: there is a row for each.
C12_Witness ==
    /\ last.op = "store_events"
    /\ last.count = 1
    /\ \E r1, r2 \in events :
         /\ r1.user_id = DEFAULT_USER_ID /\ r2.user_id = "u2"
         /\ r1.id < r2.id
         /\ r1.title = r2.title /\ r1.date = r2.date /\ r1.source_path = r2.source_path

\* The hour at which the current date began.
StartOfToday(clock) == 24 * (clock \div 24)

\* The date string parses and lies before the current date.
DatedBeforeToday(d, clock) ==
    d # NULL /\ ParsesEventDatetime(d) /\ IsoHours(d) < StartOfToday(clock)

\* C13 as claimed: delete_past_events(user) removes only rows of that user
\* whose date is strictly earlier than the current date; rows with no date,
\* with a date of today or later, or with a date string that does not parse
\* stay, and the count returned is the number of rows removed.
C13_DeletePastRemovesOnlyPastDated ==
    [][ last'.op = "delete_past_events" =>
          /\ events' \subseteq events
          /\ \A r \in events \ events' :
               r.user_id = last'.user_id /\ DatedBeforeToday(r.date, now)
          /\ last'.count = Cardinality(events \ events')
      ]_vars

\* C14 as claimed: get_upcoming_events(user) returns exactly the rows of the
\* user that have no date or a date on or after today (every row of the user
\* but those dated before today), each once; a dated event never comes
\* after a null-dated one, and parsed dates ascend.
C14_UpcomingAreUndatedOrFromToday ==
    last.op = "get_upcoming_events" =>
        LET res == last.result
            due == {r \in events : r.user_id = last.user_id
                                   /\ ~DatedBeforeToday(r.date, now)}
        IN  /\ {res[i].id : i \in 1..Len(res)} = {r.id : r \in due}
            /\ Len(res) = Cardinality(due)
            /\ \A i, j \in 1..Len(res) :
                 i < j =>
                   /\ res[i].date = NULL => res[j].date = NULL
                   /\ (ParsesEventDatetime(res[i].date) /\ ParsesEventDatetime(res[j].date))
                        => IsoHours(res[i].date) <= IsoHours(res[j].date)

\* C15: the value store_events returns is the number of rows it inserted,
\* the size of the events table after the call less its size before: 0 for
\* an empty list, 0 when every offered event is already stored.
C15_ReturnsInsertedCount ==
    [][ (last'.op = "store_events" /\ ~last'.raised) =>
          /\ events \subseteq events'
          /\ last'.count = Cardinality(events') - Cardinality(events)
          /\ last'.offered = 0 => last'.count = 0
          /\ events' = events => last'.count = 0
      ]_vars

\* Two events were offered and one row was inserted.
C15_Witness ==
    /\ last.op = "store_events"
    /\ ~last.raised
    /\ last.offered = 2
    /\ last.count = 1
    /\ Cardinality(events) = 2

-----------------------------------------------------------------------------
\* save_webhook run by coroutines that interleave at their awaits.  Its
\* first statement is the DELETE, which opens the write transaction of the
\* connection: until the commit no other connection can write, and readers
\* see the committed rows.

WebhookUrls == {"https://hooks.example/a", "https://hooks.example/b"}

\* Coroutine p is inside its write transaction.
InWriteTransaction(p) == procs[p].pc \in {"insert", "commit"}

WebhooksLocked(p) == \E q \in Coroutines \ {p} : InWriteTransaction(q)

\* The DELETE of save_webhook left out.
DeleteUserWebhooksSkipped(whs, user_id) == whs

\* DELETE FROM webhooks WHERE user_id = ?
DeleteUserWebhooks(whs, user_id) == {w \in whs : w.user_id # user_id}

\* save_webhook is called and connects.
WhBegin(p) ==
    /\ procs[p].pc \in {"idle", "done", "raised"}
    /\ \E url \in WebhookUrls, user_id \in Users :
         procs' = [procs EXCEPT ![p] = [pc |-> "delete", url |-> url,
                                        user_id |-> user_id, tx |-> {}, id |-> 0]]
    /\ UNCHANGED <<collection, events, next_event_id, webhooks, next_webhook_id, now, last>>

\* await db.execute(DELETE ...)
WhDelete(p) ==
    /\ procs[p].pc = "delete"
    /\ ~WebhooksLocked(p)
    /\ procs' = [procs EXCEPT ![p] =
          [@ EXCEPT !.pc = "insert",
                    !.tx = DeleteUserWebhooks(webhooks, procs[p].user_id)]]
    /\ UNCHANGED <<collection, events, next_event_id, webhooks, next_webhook_id, now, last>>

\* The DELETE waits for the writer longer than the busy timeout and
\* sqlite3.OperationalError leaves save_webhook.
WhLockTimeout(p) ==
    /\ procs[p].pc = "delete"
    /\ WebhooksLocked(p)
    /\ procs' = [procs EXCEPT ![p] = [@ EXCEPT !.pc = "raised"]]
    /\ UNCHANGED <<collection, events, next_event_id, webhooks, next_webhook_id, now, last>>

\* await db.execute(INSERT ...)
WhInsert(p) ==
    LET c == procs[p]
    IN  /\ c.pc = "insert"
        /\ next_webhook_id <= MaxWebhookId
        /\ procs' = [procs EXCEPT ![p] =
              [c EXCEPT !.pc = "commit", !.id = next_webhook_id,
                        !.tx = @ \cup {[id |-> next_webhook_id, user_id |-> c.user_id,
                                        url |-> c.url]}]]
        /\ UNCHANGED <<collection, events, next_event_id, webhooks, next_webhook_id,
                       now, last>>

\* await db.commit(); return cursor.lastrowid
WhCommit(p) ==
    LET c == procs[p]
    IN  /\ c.pc = "commit"
        /\ webhooks' = c.tx
        /\ next_webhook_id' = c.id + 1
        /\ procs' = [procs EXCEPT ![p] = [c EXCEPT !.pc = "done", !.tx = {}]]
        /\ last' = [op |-> "save_webhook", user_id |-> c.user_id, url |-> c.url,
                    id |-> c.id]
        /\ UNCHANGED <<collection, events, next_event_id, now>>

\* delete_webhook between the transactions of the coroutines.
WhDeleteWebhook ==
    /\ \A p \in Coroutines : ~InWriteTransaction(p)
    /\ DeleteWebhookCall(Users)

\* get_webhooks
GetWebhooksCall(users) ==
    /\ \E user_id \in users :
         last' = [op |-> "get_webhooks", user_id |-> user_id,
                  result |-> GetWebhooks(webhooks, user_id)]
    /\ UNCHANGED <<collection, events, next_event_id, webhooks, next_webhook_id, now, procs>>

NextWebhooks ==
    \/ \E p \in Coroutines :
         \/ WhBegin(p)
         \/ WhDelete(p)
         \/ WhLockTimeout(p)
         \/ WhInsert(p)
         \/ WhCommit(p)
    \/ WhDeleteWebhook
    \/ GetWebhooksCall(Users)

SpecWebhooks == InitConcurrent /\ [][NextWebhooks]_vars

AtMostOneWebhookPerUser ==
    \A u \in Users : Cardinality(GetWebhooks(webhooks, u)) <= 1

\* C16: whatever save_webhook and delete_webhook calls ran, interleaved
\* save_webhook calls of one user included, every user has at most one
\* webhook row; when save_webhook(url, user) completes, get_webhooks(user) is
\* the one webhook with that url, and the webhooks of other users are as
\* before.
C16_OneWebhookPerUser ==
    /\ []AtMostOneWebhookPerUser
    /\ [][ (last'.op = "save_webhook" /\ webhooks' # webhooks) =>
             /\ GetWebhooks(webhooks', last'.user_id) =
                  {[id |-> last'.id, user_id |-> last'.user_id, url |-> last'.url]}
             /\ \A u \in Users \ {last'.user_id} :
                  GetWebhooks(webhooks', u) = GetWebhooks(webhooks, u)
        ]_vars

\* A save_webhook that begun while another one of the same user was in its
\* transaction has completed and replaced the webhook of that one.
C16_Witness ==
    /\ last.op = "save_webhook"
    /\ last.id = 2
    /\ last.url = "https://hooks.example/b"
    /\ webhooks = {[id |-> 2, user_id |-> last.user_id, url |-> last.url]}
    /\ \A p \in Coroutines : procs[p].pc = "done" /\ procs[p].user_id = last.user_id

-----------------------------------------------------------------------------
\* main: POST /ingest/batch.  asyncio.gather runs one ingest_file coroutine
\* per file.  A coroutine touches the stores twice: store_document, after the
\* replies of the language model have come, and store_events; between the
\* two it is suspended and the other coroutines run.

ReplyDescribed ==
    ObjectReply([description |-> "Exam schedule", category |-> "study",
                 summary |-> "Exam on Sunday"])

ReplyWithEvent == ObjectReply([has_events |-> TRUE, events |-> <<EvExam>>])

ReplyNoEvents == ObjectReply([has_events |-> FALSE, events |-> <<>>])

\* The files of a request with what the collaborators do for each.
BatchItems ==
    { [file_path |-> "/docs/a.txt", payload |-> "RXhhbSBvbiBTdW5kYXk=", filename |-> "a.txt",
       desc_reply |-> ReplyDescribed, events_reply |-> ReplyWithEvent, db_fails |-> FALSE],
      [file_path |-> "/docs/b.ics", payload |-> "RXhhbSBvbiBTdW5kYXk=", filename |-> "B.ICS",
       desc_reply |-> GarbageReply, events_reply |-> ReplyNoEvents, db_fails |-> FALSE],
      [file_path |-> "/docs/b.ics", payload |-> "!!!not-base64!!!", filename |-> "B.ICS",
       desc_reply |-> GarbageReply, events_reply |-> GarbageReply, db_fails |-> FALSE],
      [file_path |-> "/docs/a.txt", payload |-> "ICAK", filename |-> "a.txt",
       desc_reply |-> GarbageReply, events_reply |-> GarbageReply, db_fails |-> FALSE],
      [file_path |-> "/docs/b.ics", payload |-> "RXhhbSBvbiBTdW5kYXk=", filename |-> "B.ICS",
       desc_reply |-> ErrorReply, events_reply |-> GarbageReply, db_fails |-> FALSE],
      [file_path |-> "/docs/a.txt", payload |-> "RXhhbSBvbiBTdW5kYXk=", filename |-> "a.txt",
       desc_reply |-> ReplyDescribed, events_reply |-> ReplyWithEvent, db_fails |-> TRUE] }

BatchRequests ==
    {<< >>} \cup {<<f>> : f \in BatchItems} \cup {<<f, g>> : f, g \in BatchItems}

NoBatch == [active |-> FALSE, files |-> << >>, stage |-> << >>, results |-> << >>]

\* ingest_file for one item on the stores as they are.
IngestItem(f, outs) ==
    IngestFile(collection, events, next_event_id, webhooks, now, f.file_path,
               f.payload, f.filename,
               [desc_reply |-> f.desc_reply, events_reply |-> f.events_reply,
                db_fails |-> f.db_fails, outs |-> outs])

\* Every result of the batch counted.
CountAllResults(results) == Len(results)

\* successful = sum(1 for r in processed if r.success)
CountSuccessful(results) == Cardinality({i \in 1..Len(results) : results[i].success})

\* BatchIngestResponse(results=processed, total=len(processed), successful=...)
BatchIngestResponse(processed) ==
    [results |-> processed, total |-> Len(processed),
     successful |-> CountSuccessful(processed)]

\* The request arrives and the coroutines are created.
BatchBegin ==
    /\ ~procs.active
    /\ \E files \in BatchRequests :
         procs' = [active |-> TRUE, files |-> files,
                   stage |-> [i \in 1..Len(files) |-> "analysis"],
                   results |-> [i \in 1..Len(files) |-> None]]
    /\ UNCHANGED <<collection, events, next_event_id, webhooks, next_webhook_id, now, last>>

\* Coroutine i runs up to store_document; it returns here when it fails on
\* the way or has no events to store.
BatchItemStore(i) ==
    /\ procs.active
    /\ i \in 1..Len(procs.files)
    /\ procs.stage[i] = "analysis"
    /\ LET res == IngestItem(procs.files[i], <<"delivered">>)
       IN  /\ collection' = res.coll
           /\ procs' = IF res.ev_called
                       THEN [procs EXCEPT !.stage[i] = "events"]
                       ELSE [procs EXCEPT !.stage[i] = "done", !.results[i] = res.result]
    /\ UNCHANGED <<events, next_event_id, webhooks, next_webhook_id, now, last>>

\* Coroutine i runs store_events and returns its IngestResult.
BatchItemEvents(i) ==
    /\ procs.active
    /\ i \in 1..Len(procs.files)
    /\ procs.stage[i] = "events"
    /\ \E outs \in [1..Len(IngestItem(procs.files[i], <<"delivered">>).triggered)
                      -> {"delivered"}] :
         LET res == IngestItem(procs.files[i], outs)
         IN  /\ Len(outs) = Len(res.triggered)
             /\ res.nid <= MaxEventId + 1
             /\ events' = res.rows
             /\ next_event_id' = res.nid
             /\ procs' = [procs EXCEPT !.stage[i] = "done", !.results[i] = res.result]
    /\ UNCHANGED <<collection, webhooks, next_webhook_id, now, last>>

\* gather returns: the response is built from the results in request order.
BatchRespond ==
    /\ procs.active
    /\ \A i \in 1..Len(procs.files) : procs.stage[i] = "done"
    /\ last' = [op |-> "ingest_batch", files |-> procs.files,
                response |-> BatchIngestResponse(procs.results)]
    /\ procs' = NoBatch
    /\ UNCHANGED <<collection, events, next_event_id, webhooks, next_webhook_id, now>>

InitBatch ==
    /\ collection = << >>
    /\ events = {}
    /\ next_event_id = 1
    /\ webhooks = {}
    /\ next_webhook_id = 1
    /\ now = 10
    /\ last = NoOp
    /\ procs = NoBatch

NextBatch ==
    \/ BatchBegin
    \/ \E i \in 1..2 : BatchItemStore(i) \/ BatchItemEvents(i)
    \/ BatchRespond
    \/ SaveWebhookCall({"https://hooks.example/a"}, {DEFAULT_USER_ID})

SpecBatch == InitBatch /\ [][NextBatch]_vars

\* Nothing on the way of the item fails: its content decodes and is not
\* blank, both calls of the language model return, the database works.
ItemShouldSucceed(f) ==
    /\ Base64Decodes(f.payload)
    /\ ~StripsToEmpty(ExtractContent(f.payload))
    /\ f.desc_reply.kind # "error"
    /\ f.events_reply.kind # "error"
    /\ ~f.db_fails

BlankExtraction(payload) ==
    payload \in {"", "ICAK"}

\* C18: when extraction yields an empty or whitespace-only text, ingest_file
\* returns success=false with a non-empty error, calls the language model
\* for nothing, and leaves the collection and the events table as they were.
C18_BlankContentStoresNothing ==
    [][ (last'.op = "ingest_file" /\ BlankExtraction(last'.payload)) =>
          /\ last'.result.success = FALSE
          /\ last'.result.error # ""
          /\ last'.llm_calls = << >>
          /\ collection' = collection
          /\ events' = events
          /\ next_event_id' = next_event_id
      ]_vars

\* A whitespace-only file was refused while the stores hold a record and an
\* event.
C18_Witness ==
    /\ last.op = "ingest_file"
    /\ last.payload = "ICAK"
    /\ ~last.result.success
    /\ last.result.error = "Could not extract any content from file"
    /\ collection # << >>
    /\ events # {}

-----------------------------------------------------------------------------
\* ingest_file with every kind of reply of the language model

AnalysisReplies == {ReplyDescribed, GarbageReply, ArrayReply, ErrorReply}

AnalysisEventsReplies == {ReplyWithEvent, ReplyNoEvents, GarbageReply, ArrayReply}

NextAnalysis ==
    \/ IngestFileCall(IngestPaths, {"ICAK", "RXhhbSBvbiBTdW5kYXk="}, {"a.txt"},
                      AnalysisReplies, AnalysisEventsReplies, {"delivered"})
    \/ Tick

SpecAnalysis == Init /\ [][NextAnalysis]_vars

\* C19 as claimed: a reply to describe or extract_events that is not the
\* expected JSON object (text that does not parse, JSON that is no object)
\* is never surfaced as an error: the fallback is used (description
\* "File: <name>", category "other", summary <name>; has_events false, no
\* events), the document is stored and ingest_file returns success=true.
C19_MalformedReplyFallsBack ==
    (/\ last.op = "ingest_file"
     /\ Len(last.llm_calls) > 0
     /\ last.desc_kind \in {"garbage", "array"} \/ last.events_kind \in {"garbage", "array"}
     /\ last.desc_kind # "error" /\ last.events_kind # "error"
     /\ ~last.db_fails)
    => /\ last.result.success
       /\ last.stored
       /\ DocId(last.file_path) \in DOMAIN collection
       /\ last.desc_kind \in {"garbage", "array"} =>
            /\ last.result.description = "File: a.txt"
            /\ last.result.category = "other"
            /\ last.record.metadata.summary = "a.txt"
       /\ last.events_kind \in {"garbage", "array"} =>
            /\ last.result.has_events = FALSE
            /\ last.ev_called = FALSE

-----------------------------------------------------------------------------
\* Reading back what was stored: store_document, ingest_file,
\* query_documents and get_all_memories on one memory store.

\* _where_with_user(user_id, category): the conditions are added for the
\* arguments that are truthy, and a record matches when its metadata has
\* each named key with the given value.
WhereWithUser(user_id, category) ==
    (IF user_id # NULL /\ user_id # "" THEN {<<"user_id", user_id>>} ELSE {})
    \cup (IF category # NULL /\ category # "" THEN {<<"category", category>>} ELSE {})

MatchesWhere(meta, where) ==
    \A c \in where : c[1] \in DOMAIN meta /\ meta[c[1]] = c[2]

\* MemoryItem(...) built from one record of collection.get
MemoryItem(coll, doc_id) ==
    LET meta == coll[doc_id].metadata
    IN  [doc_id |-> doc_id,
         file_path |-> Get(meta, "file_path", ""),
         file_name |-> Get(meta, "file_name", ""),
         description |-> Get(meta, "description", ""),
         category |-> Get(meta, "category", ""),
         has_events |-> Get(meta, "has_events", FALSE)]

\* The position of meta.get("timestamp", "") in the order of the sort: the
\* empty string is below every timestamp.
TimestampRank(meta) == IF "timestamp" \in DOMAIN meta THEN meta.timestamp + 1 ELSE 0

\* get_all_memories: the lists it may return. collection.get returns up to
\* limit matching records in the order of the store, and the sort puts a
\* later timestamp first, records with one timestamp in the order they came.
GetAllMemories(coll, category, limit, user_id) ==
    LET where == WhereWithUser(user_id, category)
        matching == {d \in DOMAIN coll : MatchesWhere(coll[d].metadata, where)}
        n == Min2(limit, Cardinality(matching))
        rank(d) == TimestampRank(coll[d].metadata)
    IN  IF Cardinality(DOMAIN coll) = 0 THEN {<< >>}
        ELSE {[i \in 1..n |-> MemoryItem(coll, ids[i])] :
                ids \in {s \in [1..n -> matching] :
                    \A i, j \in 1..n : i < j => s[i] # s[j] /\ rank(s[i]) >= rank(s[j])}}

\* Records as callers of store_document pass them: with the metadata that
\* ingest_file builds, and with a user_id added.
MemoryEntries ==
    { [doc_id |-> "doc0", description |-> "Project planning document",
       metadata |-> [file_name |-> "0.pdf", file_path |-> "/test/0.pdf",
                     description |-> "Project planning document",
                     category |-> "work"]],
      [doc_id |-> "doc1", description |-> "lecture notes",
       metadata |-> [file_name |-> "1.pdf", file_path |-> "/test/1.pdf",
                     description |-> "lecture notes", category |-> "study"]],
      [doc_id |-> "doc2", description |-> "exam schedule",
       metadata |-> [file_name |-> "2.pdf", file_path |-> "/test/2.pdf",
                     description |-> "exam schedule", category |-> "work",
                     user_id |-> "default"]],
      [doc_id |-> "doc3", description |-> "exam schedule",
       metadata |-> [file_name |-> "2.pdf", file_path |-> "/u2/2.pdf",
                     description |-> "exam schedule", category |-> "work",
                     user_id |-> "u2"]] }

MemoryCategories == {NULL, "work", "study"}

MemoryLimits == {1, 50}

QueryDocumentsCall(questions, top_ks, users) ==
    /\ \E question \in questions, top_k \in top_ks, user_id \in users :
       \E docs \in QueryDocuments(collection, question, top_k, user_id) :
         last' = [op |-> "query_documents", question |-> question,
                  top_k |-> top_k, user_id |-> user_id, docs |-> docs]
    /\ UNCHANGED <<collection, events, next_event_id, webhooks, next_webhook_id, now, procs>>

GetAllMemoriesCall(categories, limits, users) ==
    /\ \E category \in categories, limit \in limits, user_id \in users :
       \E memories \in GetAllMemories(collection, category, limit, user_id) :
         last' = [op |-> "get_all_memories", category |-> category,
                  limit |-> limit, user_id |-> user_id, memories |-> memories]
    /\ UNCHANGED <<collection, events, next_event_id, webhooks, next_webhook_id, now, procs>>

NextMemories ==
    \/ StoreDocumentCall(MemoryEntries)
    \/ IngestFileCall({"/docs/a.txt"}, {"RXhhbSBvbiBTdW5kYXk="}, {"a.txt"},
                      {ReplyDescribed}, {ReplyNoEvents}, {"delivered"})
    \/ QueryDocumentsCall({"when is the exam?", "project plan"}, {3, 5}, {DEFAULT_USER_ID})
    \/ GetAllMemoriesCall(MemoryCategories, MemoryLimits, {DEFAULT_USER_ID})

SpecMemories == Init /\ [][NextMemories]_vars

\* The records of the store that belong to the default user, as get_document
\* reads ownership: a record without user_id is the default user's.
DefaultUserDocs == {d \in DOMAIN collection : GetDocument(collection, d, DEFAULT_USER_ID) # None}

DocIdsOf(list) == {list[i].doc_id : i \in 1..Len(list)}

\* C20: a document stored for the default user is visible to that user's
\* reads. After store_document or a successful ingest_file, when the store
\* holds no more than top_k documents, query_documents for the default user
\* returns a non-empty list containing each of the user's documents, and
\* get_all_memories(category=c) returns exactly the user's stored documents
\* whose category is c.
C20_StoredDocumentsAreVisible ==
    /\ (/\ last.op = "query_documents"
        /\ last.user_id = DEFAULT_USER_ID
        /\ Cardinality(DOMAIN collection) <= last.top_k
        /\ DefaultUserDocs # {})
       => /\ last.docs # << >>
          /\ DefaultUserDocs \subseteq DocIdsOf(last.docs)
    /\ (/\ last.op = "get_all_memories"
        /\ last.user_id = DEFAULT_USER_ID
        /\ last.category # NULL
        /\ Cardinality(DOMAIN collection) <= last.limit)
       => DocIdsOf(last.memories) =
            {d \in DefaultUserDocs : Get(collection[d].metadata, "category", "") = last.category}

-----------------------------------------------------------------------------
\* The memory store used by more than one user: store_document,
\* ingest_file, get_document and delete_document on records that carry the
\* user_id of their owner.

\* The user a record belongs to, as get_document reads it.
Owner(rec) == Get(rec.metadata, "user_id", DEFAULT_USER_ID)

\* Records stored on behalf of a user. The doc_id is the hash of the
\* file_path alone, so two users ingesting one path write one doc_id.
OwnedEntries ==
    { [doc_id |-> DocId("/docs/a.txt"), description |-> "exam schedule",
       metadata |-> [file_name |-> "a.txt", file_path |-> "/docs/a.txt",
                     description |-> "exam schedule", category |-> "study",
                     user_id |-> "u2"]],
      [doc_id |-> DocId("/docs/a.txt"), description |-> "lecture notes",
       metadata |-> [file_name |-> "a.txt", file_path |-> "/docs/a.txt",
                     description |-> "lecture notes", category |-> "study",
                     user_id |-> "default"]],
      [doc_id |-> DocId("/docs/b.ics"), description |-> "exam schedule",
       metadata |-> [file_name |-> "b.ics", file_path |-> "/docs/b.ics",
                     description |-> "exam schedule", category |-> "study",
                     user_id |-> "u2"]],
      [doc_id |-> DocId("/docs/b.ics"), description |-> "holiday photo",
       metadata |-> [file_name |-> "b.ics", file_path |-> "/docs/b.ics",
                     description |-> "holiday photo", category |-> "personal"]] }

OwnedDocIds == {DocId("/docs/a.txt"), DocId("/docs/b.ics"), "nonexistent_id"}

StoreUsers == {DEFAULT_USER_ID, "u2"}

GetDocumentCall(doc_ids, users) ==
    /\ \E doc_id \in doc_ids, user_id \in users :
         last' = [op |-> "get_document", doc_id |-> doc_id, user_id |-> user_id,
                  result |-> GetDocument(collection, doc_id, user_id)]
    /\ UNCHANGED <<collection, events, next_event_id, webhooks, next_webhook_id, now, procs>>

DeleteDocumentCall(doc_ids, users) ==
    /\ \E doc_id \in doc_ids, user_id \in users, chroma_fails \in BOOLEAN :
         LET res == DeleteDocument(collection, doc_id, user_id, chroma_fails)
         IN  /\ collection' = res.coll
             /\ last' = [op |-> "delete_document", doc_id |-> doc_id,
                         user_id |-> user_id, chroma_fails |-> chroma_fails,
                         deleted |-> res.deleted]
    /\ UNCHANGED <<events, next_event_id, webhooks, next_webhook_id, now, procs>>

NextOwnership ==
    \/ StoreDocumentCall(OwnedEntries)
    \/ IngestFileCall({"/docs/a.txt"}, {"RXhhbSBvbiBTdW5kYXk="}, {"a.txt"},
                      {ReplyDescribed}, {ReplyNoEvents}, {"delivered"})
    \/ GetDocumentCall(OwnedDocIds, StoreUsers)
    \/ DeleteDocumentCall(OwnedDocIds, StoreUsers)

SpecOwnership == Init /\ [][NextOwnership]_vars

\* C21: every write to the memory store is scoped by user. A store_document
\* or a storing ingest_file on behalf of one user leaves every record that
\* belongs to a different user in the store and unchanged.
C21_WritesAreScopedByUser ==
    [][(\/ last'.op = "store_document"
        \/ last'.op = "ingest_file" /\ last'.stored)
       => LET written == IF last'.op = "store_document"
                         THEN collection'[last'.doc_id] ELSE last'.record
          IN  \A d \in DOMAIN collection :
                Owner(collection[d]) # Owner(written)
                => d \in DOMAIN collection' /\ collection'[d] = collection[d]]_vars

\* C22: get_document(doc_id, user) returns nothing when the record is absent
\* or owned by a different user. delete_document(doc_id, user) removes the
\* record only if it exists and belongs to user, returns true exactly when
\* a record was removed, and otherwise returns false and leaves the store
\* unchanged.
C22_GetAndDeleteRespectOwnership ==
    [][/\ (/\ last'.op = "get_document"
           /\ \/ last'.doc_id \notin DOMAIN collection
              \/ Owner(collection[last'.doc_id]) # last'.user_id)
          => last'.result = None
       /\ last'.op = "delete_document"
          => LET removed == DOMAIN collection \ DOMAIN collection'
             IN  /\ removed \subseteq {last'.doc_id}
                 /\ \A d \in removed : Owner(collection[d]) = last'.user_id
                 /\ \A d \in DOMAIN collection \ removed :
                       d \in DOMAIN collection' /\ collection'[d] = collection[d]
                 /\ DOMAIN collection' \subseteq DOMAIN collection
                 /\ last'.deleted <=> removed # {}
                 /\ ~last'.deleted => collection' = collection]_vars

\* A delete of a record of another user was refused and the record is still
\* there.
C22_Witness ==
    /\ last.op = "delete_document"
    /\ ~last.chroma_fails
    /\ ~last.deleted
    /\ last.doc_id \in DOMAIN collection
    /\ Owner(collection[last.doc_id]) # last.user_id

-----------------------------------------------------------------------------
\* The category of an ingested file

\* Replies to the description prompt by the category they carry: one of the
\* set, none, JSON null, one in another case, one outside the set, a list.
CategoryReplies ==
    { ObjectReply([description |-> "Exam schedule", category |-> "study",
                   summary |-> "Exam on Sunday"]),
      ObjectReply([description |-> "No category", summary |-> "Exam on Sunday"]),
      ObjectReply([description |-> "Null category", category |-> NULL,
                   summary |-> "Exam on Sunday"]),
      ObjectReply([description |-> "Capital letter", category |-> "Work",
                   summary |-> "Exam on Sunday"]),
      ObjectReply([description |-> "Trip plan", category |-> "travel",
                   summary |-> "Exam on Sunday"]),
      ObjectReply([description |-> "Two categories", category |-> JsonList,
                   summary |-> "Exam on Sunday"]),
      GarbageReply }

NextCategory ==
    \/ IngestFileCall({"/docs/a.txt"}, {"RXhhbSBvbiBTdW5kYXk="}, {"a.txt"},
                      CategoryReplies, {ReplyNoEvents, ReplyWithEvent}, {"delivered"})
    \/ DeleteMemoryCall({DocId("/docs/a.txt")})

SpecCategory == Init /\ [][NextCategory]_vars

\* C23: every document record written by ingest_file and every successful
\* IngestResult has a category of the closed set; a missing or unrecognized
\* category of the model's reply becomes "other".
C23_CategoryIsOfTheClosedSet ==
    /\ \A d \in DOMAIN collection : collection[d].metadata.category \in ValidCategories
    /\ (last.op = "ingest_file" /\ last.result.success)
       => last.result.category \in ValidCategories
    /\ (last.op = "ingest_file" /\ last.stored)
       => /\ last.result.success => last.record.metadata.category = last.result.category
          /\ last.record.document \in {"No category", "Null category", "Capital letter",
                                       "Trip plan", "File: a.txt"}
             => last.record.metadata.category = "other"

\* The reply named the category "travel" and the record was stored as "other".
C23_Witness ==
    /\ last.op = "ingest_file"
    /\ last.result.success
    /\ last.record.document = "Trip plan"
    /\ collection[DocId(last.file_path)].metadata.category = "other"

-----------------------------------------------------------------------------
\* Requests on one file_path running as coroutines of one event loop:
\* POST /ingest and DELETE /memories/{doc_id}. A coroutine runs alone from
\* one await to the next, so each action is the code between two awaits.

RacePath == "/docs/a.txt"

\* A request that has not started; the fields of store_events are those of
\* the coroutines above.
RaceIdle ==
    [pc |-> "idle", task |-> "none", success |-> FALSE, desc_reply |-> GarbageReply,
     record |-> None, evs |-> <<>>, i |-> 1, user_id |-> DEFAULT_USER_ID,
     source_file |-> "a.txt", source_path |-> RacePath, own |-> {}, nid |-> 0,
     inserted |-> <<>>, count |-> 0, triggered |-> <<>>]

\* What the model answers to the description prompt of coroutine p.
RaceDescReply(p) ==
    IF p = 1
    THEN ObjectReply([description |-> "Exam schedule", category |-> "study",
                      summary |-> "Exam on Sunday"])
    ELSE ObjectReply([description |-> "Lecture notes", category |-> "work",
                      summary |-> "Notes of the lecture"])

\* ingest_file up to `await llm_service.generate_description(...)`
IngestStart(p) ==
    /\ procs[p].pc = "idle"
    /\ procs' = [procs EXCEPT ![p] = [RaceIdle EXCEPT !.pc = "describe", !.task = "ingest"]]
    /\ UNCHANGED <<collection, events, next_event_id, webhooks, next_webhook_id, now, last>>

\* The description arrives; up to `await llm_service.extract_events(content)`
IngestDescribed(p) ==
    /\ procs[p].pc = "describe"
    /\ \E reply \in {RaceDescReply(p), ErrorReply} :
         procs' = [procs EXCEPT ![p] =
            IF reply.kind = "error" THEN [@ EXCEPT !.pc = "done"]
            ELSE [@ EXCEPT !.pc = "extract", !.desc_reply = reply]]
    /\ UNCHANGED <<collection, events, next_event_id, webhooks, next_webhook_id, now, last>>

\* The events arrive; store_document; up to the first await of
\* store_events, or to the return when there are no events.
IngestExtracted(p) ==
    /\ procs[p].pc = "extract"
    /\ \E events_reply \in {ReplyWithEvent, ReplyNoEvents, ErrorReply} :
         LET res == IngestFile(collection, {}, 1, {}, now, RacePath,
                               "RXhhbSBvbiBTdW5kYXk=", "a.txt",
                               [desc_reply |-> procs[p].desc_reply,
                                events_reply |-> events_reply,
                                db_fails |-> FALSE, outs |-> <<"delivered">>])
         IN  /\ collection' = IF res.stored THEN res.coll ELSE collection
             /\ last' = IF res.stored
                        THEN [op |-> "store_document", doc_id |-> DocId(RacePath), by |-> p]
                        ELSE last
             /\ procs' = [procs EXCEPT ![p] =
                   IF ~res.stored THEN [@ EXCEPT !.pc = "done"]
                   ELSE IF res.ev_called
                   THEN [@ EXCEPT !.pc = "select", !.record = res.record,
                                  !.evs = events_reply.value.events]
                   ELSE [@ EXCEPT !.pc = "done", !.record = res.record,
                                  !.success = TRUE]]
    /\ UNCHANGED <<events, next_event_id, webhooks, next_webhook_id, now>>

\* store_events has returned or raised: ingest_file returns its result.
IngestReturn(p) ==
    /\ procs[p].task = "ingest"
    /\ procs[p].pc \in {"stored", "raised"}
    /\ procs' = [procs EXCEPT ![p] = [@ EXCEPT !.pc = "done",
                                               !.success = (procs[p].pc = "stored")]]
    /\ UNCHANGED <<collection, events, next_event_id, webhooks, next_webhook_id, now, last>>

\* The reminder loop of store_events inside ingest_file.
IngestRemind(p) ==
    LET c == procs[p]
        n == Len(DueReminders(c.inserted, now))
    IN  /\ c.pc = "remind"
        /\ \E outs \in [1..n -> {"delivered"}] :
             procs' = [procs EXCEPT ![p] =
                [c EXCEPT !.pc = "stored",
                          !.triggered = Reminders(c.inserted, outs, webhooks,
                                                  c.user_id, now).triggered]]
        /\ UNCHANGED <<collection, events, next_event_id, webhooks, next_webhook_id, now, last>>

\* delete_memory up to `await notif_service.delete_events_by_source(...)`:
\* get_document and delete_document.
DeleteStart(p) ==
    /\ procs[p].pc = "idle"
    /\ LET doc_id == DocId(RacePath)
           doc == GetDocument(collection, doc_id, DEFAULT_USER_ID)
           del == DeleteDocument(collection, doc_id, DEFAULT_USER_ID, FALSE)
       IN  /\ collection' = del.coll
           /\ last' = [op |-> "delete_document", doc_id |-> doc_id, by |-> p]
           /\ procs' = [procs EXCEPT ![p] =
                 [RaceIdle EXCEPT !.task = "delete",
                                  !.pc = IF doc # None /\ del.deleted /\ Get(doc, "file_path", "") # ""
                                         THEN "cascade" ELSE "done",
                                  !.success = (doc # None /\ del.deleted)]]
    /\ UNCHANGED <<events, next_event_id, webhooks, next_webhook_id, now>>

\* delete_events_by_source: DELETE and commit on a connection of its own.
DeleteCascade(p) ==
    /\ procs[p].pc = "cascade"
    /\ ~WriteLocked(p)
    /\ events' = DeleteEventsBySourceRows(events, RacePath, DEFAULT_USER_ID, FALSE)
    /\ procs' = [procs EXCEPT ![p] = [@ EXCEPT !.pc = "done"]]
    /\ UNCHANGED <<collection, next_event_id, webhooks, next_webhook_id, now, last>>

\* The DELETE waits for a writer longer than the busy timeout: the
\* exception is caught in delete_events_by_source, which returns 0.
DeleteCascadeLockTimeout(p) ==
    /\ procs[p].pc = "cascade"
    /\ WriteLocked(p)
    /\ procs' = [procs EXCEPT ![p] = [@ EXCEPT !.pc = "done"]]
    /\ UNCHANGED <<collection, events, next_event_id, webhooks, next_webhook_id, now, last>>

InitRace ==
    /\ collection = << >>
    /\ events = {}
    /\ next_event_id = 1
    /\ webhooks = {}
    /\ next_webhook_id = 1
    /\ now = 10
    /\ last = NoOp
    /\ procs = [p \in Coroutines |-> RaceIdle]

NextRace ==
    \E p \in Coroutines :
      \/ IngestStart(p)
      \/ IngestDescribed(p)
      \/ IngestExtracted(p)
      \/ CoSelect(p)
      \/ CoInsert(p)
      \/ CoLockTimeout(p)
      \/ CoCommit(p)
      \/ IngestRemind(p)
      \/ IngestReturn(p)
      \/ DeleteStart(p)
      \/ DeleteCascade(p)
      \/ DeleteCascadeLockTimeout(p)

SpecRace == InitRace /\ [][NextRace]_vars

AllCompleted == \A p \in Coroutines : procs[p].pc = "done"

\* The coroutine ran ingest_file and reached store_document.
Ingested(p) == procs[p].task = "ingest" /\ procs[p].record # None

\* C24: for two concurrent ingestions of one file_path, no reachable state
\* holds a record mixing fields of the two writes, and once both have
\* completed the store holds exactly one record for the doc_id, the one of
\* the last upsert the store observed.
C24_LastWriteWinsWithoutMerge ==
    /\ \A d \in DOMAIN collection :
          \E p \in Coroutines : Ingested(p) /\ collection[d] = procs[p].record
    /\ (AllCompleted /\ \A p \in Coroutines : Ingested(p))
       => /\ DOMAIN collection = {DocId(RacePath)}
          /\ last.op = "store_document"
          /\ collection[DocId(RacePath)] = procs[last.by].record

\* Both ingestions have completed, they wrote different records, and the
\* store holds that of coroutine 1.
C24_Witness ==
    /\ AllCompleted
    /\ \A p \in Coroutines : Ingested(p)
    /\ procs[1].record # procs[2].record
    /\ collection[DocId(RacePath)] = procs[1].record

\* C29: no orphaned events. Under any interleaving of ingest_file and
\* delete_memory on one file_path, once all operations have completed every
\* event row's source_path is the file_path of a document record that is
\* stored.
C29_NoOrphanedEvents ==
    AllCompleted
    => \A r \in events :
          \E d \in DOMAIN collection : collection[d].metadata.file_path = r.source_path

-----------------------------------------------------------------------------
\* The has_events flag of an ingested file

\* Replies to the events prompt: events with the flag, neither, the flag
\* with an empty list, the flag without a list, a list without the flag.
FlagReplies ==
    { ReplyWithEvent,
      ReplyNoEvents,
      ObjectReply([has_events |-> TRUE, events |-> <<>>]),
      ObjectReply([has_events |-> TRUE]),
      ObjectReply([events |-> <<EvExam>>]),
      GarbageReply }

NextFlags ==
    \/ IngestFileCall(IngestPaths, {"RXhhbSBvbiBTdW5kYXk="}, {"a.txt"},
                      {ReplyDescribed, GarbageReply}, FlagReplies, {"delivered"})
    \/ DeleteMemoryCall({DocId("/docs/a.txt")})

SpecFlags == Init /\ [][NextFlags]_vars

\* C25: the has_events flag stored on a document record is true only when
\* the reply to the events prompt held at least one event, that is, only
\* when the events of that ingestion were offered to store_events.
C25_FlagOnlyWithEvents ==
    (/\ last.op = "ingest_file"
     /\ last.stored
     /\ last.record.metadata.has_events)
    => last.ev_called

-----------------------------------------------------------------------------
\* main: GET /graph

\* get_all_documents_with_metadata: the lists it may return, the records
\* matching _where_with_user(user_id) in the order collection.get gives
\* them, each as its metadata with doc_id and _embedding added.
GraphDoc(coll, doc_id) ==
    LET m == coll[doc_id].metadata
    IN  [k \in DOMAIN m \cup {"doc_id", "_embedding"} |->
            CASE k = "doc_id" -> doc_id
              [] k = "_embedding" -> coll[doc_id].embedding
              [] OTHER -> m[k]]

GetAllDocumentsWithMetadata(coll, user_id) ==
    LET matching == {d \in DOMAIN coll :
                        MatchesWhere(coll[d].metadata, WhereWithUser(user_id, NULL))}
        n == Cardinality(matching)
    IN  IF Cardinality(DOMAIN coll) = 0 THEN {<< >>}
        ELSE {[i \in 1..n |-> GraphDoc(coll, ids[i])] :
                ids \in {s \in [1..n -> matching] :
                            \A i, j \in 1..n : i # j => s[i] # s[j]}}

\* The similarity threshold of get_graph, 0.7, in ten-thousandths.
SIMILARITY_THRESHOLD == 7000

\* float(np.dot(a, b) / (np.linalg.norm(a) * np.linalg.norm(b) + 1e-9)) in
\* ten-thousandths, for the embeddings of the descriptions used here. The
\* 1e-9 of the denominator is below this resolution.
GraphSimilarity(ea, eb) ==
    LET pair == {ea[2], eb[2]}
    IN  CASE ea[2] = eb[2] -> 10000
          [] pair = {"exam schedule", "exam timetable"} -> 8500
          [] pair = {"exam schedule", "holiday photo"} -> 4000
          [] pair = {"exam timetable", "holiday photo"} -> 7000
          [] pair = {"exam schedule", "exam dates"} -> 7004
          [] pair = {"exam timetable", "exam dates"} -> 8496
          [] pair = {"holiday photo", "exam dates"} -> 3333
          [] OTHER -> 1000

\* round(sim, 3) of a similarity in ten-thousandths, in thousandths. The
\* similarities above have no last digit 5, where the binary value of the
\* float decides.
Round3(sim) == IF sim % 10 < 5 THEN sim \div 10 ELSE sim \div 10 + 1

\* A threshold test that lets the threshold itself pass.
ReachesThreshold(sim) == sim >= SIMILARITY_THRESHOLD

\* if sim > 0.7
ExceedsThreshold(sim) == sim > SIMILARITY_THRESHOLD

DocCategory(doc) == Get(doc, "category", "other")

FileNode(doc) ==
    [id |-> Get(doc, "doc_id", ""), type |-> "file", label |-> Get(doc, "file_name", ""),
     metadata |-> [category |-> DocCategory(doc), modality |-> Get(doc, "modality", ""),
                   summary |-> Get(doc, "summary", ""),
                   description |-> Get(doc, "description", "")]]

CategoryNode(category) ==
    [id |-> "cat_" \o category, type |-> "category", label |-> category,
     metadata |-> << >>]

BelongsToEdge(doc) ==
    [source |-> Get(doc, "doc_id", ""), target |-> "cat_" \o DocCategory(doc),
     relationship |-> "belongs_to", weight |-> 0]

\* The nodes after the first n documents: the file node of each, followed
\* by the node of its category when the category was not seen before.
RECURSIVE GraphNodes(_, _)
GraphNodes(all_docs, n) ==
    IF n = 0 THEN << >>
    ELSE LET doc == all_docs[n]
             categories_seen == {DocCategory(all_docs[k]) : k \in 1..(n - 1)}
         IN  GraphNodes(all_docs, n - 1) \o <<FileNode(doc)>>
             \o (IF DocCategory(doc) \notin categories_seen
                 THEN <<CategoryNode(DocCategory(doc))>> ELSE << >>)

\* The similarity edges of the pairs (i, j), i < j, from (i, j) on in the
\* order of the two loops. weight is in thousandths.
RECURSIVE SimilarEdges(_, _, _)
SimilarEdges(doc_embeddings, i, j) ==
    LET n == Len(doc_embeddings) IN
    IF i > n THEN << >>
    ELSE IF j > n THEN SimilarEdges(doc_embeddings, i + 1, i + 2)
    ELSE LET sim == GraphSimilarity(doc_embeddings[i][2], doc_embeddings[j][2])
         IN  (IF ExceedsThreshold(sim)
              THEN <<[source |-> doc_embeddings[i][1], target |-> doc_embeddings[j][1],
                      relationship |-> "similar", weight |-> Round3(sim)]>>
              ELSE << >>)
             \o SimilarEdges(doc_embeddings, i, j + 1)

\* get_graph on the documents all_docs
GetGraph(all_docs) ==
    LET nodes == GraphNodes(all_docs, Len(all_docs))
        belongs == [i \in 1..Len(all_docs) |-> BelongsToEdge(all_docs[i])]
        with_embedding == SelectSeq(all_docs, LAMBDA d : Get(d, "_embedding", << >>) # << >>)
        doc_embeddings == [i \in 1..Len(with_embedding) |->
                              <<Get(with_embedding[i], "doc_id", ""),
                                with_embedding[i]["_embedding"]>>]
        edges == belongs \o SimilarEdges(doc_embeddings, 1, 2)
    IN  [nodes |-> nodes, edges |-> edges,
         node_count |-> Len(nodes), edge_count |-> Len(edges)]

\* Records for the graph: four of the default user, one without user_id as
\* ingest_file writes it, one of another user.
GraphEntries ==
    { [doc_id |-> "g1", description |-> "exam schedule",
       metadata |-> [file_name |-> "1.pdf", file_path |-> "/test/1.pdf",
                     category |-> "study", user_id |-> "default"]],
      [doc_id |-> "g2", description |-> "exam timetable",
       metadata |-> [file_name |-> "2.pdf", file_path |-> "/test/2.pdf",
                     category |-> "study", user_id |-> "default"]],
      [doc_id |-> "g3", description |-> "holiday photo",
       metadata |-> [file_name |-> "3.jpg", file_path |-> "/test/3.jpg",
                     category |-> "personal", user_id |-> "default"]],
      [doc_id |-> "g4", description |-> "exam dates",
       metadata |-> [file_name |-> "4.txt", file_path |-> "/test/4.txt",
                     user_id |-> "default"]],
      [doc_id |-> "g5", description |-> "exam timetable",
       metadata |-> [file_name |-> "5.pdf", file_path |-> "/test/5.pdf",
                     category |-> "study"]],
      [doc_id |-> "g6", description |-> "exam schedule",
       metadata |-> [file_name |-> "1.pdf", file_path |-> "/u2/1.pdf",
                     category |-> "study", user_id |-> "u2"]] }

GetGraphCall ==
    /\ \E all_docs \in GetAllDocumentsWithMetadata(collection, DEFAULT_USER_ID) :
         last' = [op |-> "get_graph", all_docs |-> all_docs,
                  response |-> GetGraph(all_docs)]
    /\ UNCHANGED <<collection, events, next_event_id, webhooks, next_webhook_id, now, procs>>

NextGraph ==
    \/ StoreDocumentCall(GraphEntries)
    \/ GetGraphCall

SpecGraph == Init /\ [][NextGraph]_vars

\* The positions of a list whose element has the given value in a field.
NodesOfType(nodes, type) == {i \in 1..Len(nodes) : nodes[i].type = type}

EdgesOfKind(edges, relationship) ==
    {i \in 1..Len(edges) : edges[i].relationship = relationship}

\* C26: get_graph emits exactly one file node per document of the user,
\* exactly one category node per distinct category observed, exactly one
\* belongs_to edge from each file node to the node of its category; every
\* edge endpoint is a node, node_count and edge_count are the lengths of the
\* lists, and the memory store is unchanged.
C26_GraphNodesAndCategoryEdges ==
    [][last'.op = "get_graph"
       => LET nodes == last'.response.nodes
              edges == last'.response.edges
              files == NodesOfType(nodes, "file")
              cats == NodesOfType(nodes, "category")
              belongs == EdgesOfKind(edges, "belongs_to")
              docs == {d \in DOMAIN collection : Owner(collection[d]) = DEFAULT_USER_ID}
              category(d) == Get(collection[d].metadata, "category", "other")
              node_ids == {nodes[i].id : i \in 1..Len(nodes)}
          IN  /\ \A d \in docs : Cardinality({i \in files : nodes[i].id = d}) = 1
              /\ \A i \in files : nodes[i].id \in docs
              /\ \A d \in docs :
                    Cardinality({i \in cats : nodes[i].label = category(d)}) = 1
              /\ \A i \in cats : \E d \in docs : nodes[i].label = category(d)
              /\ \A d \in docs :
                    /\ Cardinality({i \in belongs : edges[i].source = d}) = 1
                    /\ \A i \in belongs :
                          edges[i].source = d => edges[i].target = "cat_" \o category(d)
              /\ \A i \in belongs : edges[i].source \in docs
              /\ \A i \in 1..Len(edges) :
                    edges[i].source \in node_ids /\ edges[i].target \in node_ids
              /\ last'.response.node_count = Len(nodes)
              /\ last'.response.edge_count = Len(edges)
              /\ collection' = collection]_vars

\* C27: for every unordered pair of distinct documents of the graph that
\* both have embeddings there is exactly one "similar" edge when their
\* cosine similarity is strictly greater than 0.7 and none otherwise; its
\* weight is the similarity rounded to thousandths (0.85 gives 0.85, 0.4
\* and exactly 0.7 give no edge); no document has such an edge to itself.
C27_SimilarEdgesAboveThreshold ==
    last.op = "get_graph"
    => LET docs == last.all_docs
           edges == last.response.edges
           similar == EdgesOfKind(edges, "similar")
           between(a, b) == {i \in similar :
                               {edges[i].source, edges[i].target} = {a.doc_id, b.doc_id}}
           sim(a, b) == GraphSimilarity(a["_embedding"], b["_embedding"])
       IN  /\ \A x, y \in 1..Len(docs) :
                x < y =>
                  /\ sim(docs[x], docs[y]) > 7000
                     => /\ Cardinality(between(docs[x], docs[y])) = 1
                        /\ \A i \in between(docs[x], docs[y]) :
                              /\ edges[i].weight * 10 - sim(docs[x], docs[y]) \in -5..5
                              /\ sim(docs[x], docs[y]) = 8500 => edges[i].weight = 850
                  /\ sim(docs[x], docs[y]) <= 7000 => between(docs[x], docs[y]) = {}
           /\ \A i \in similar :
                /\ edges[i].source # edges[i].target
                /\ \E x, y \in 1..Len(docs) :
                      x # y /\ edges[i].source = docs[x].doc_id
                            /\ edges[i].target = docs[y].doc_id

\* The graph of documents with similarities 0.85, 0.4 and exactly 0.7: one
\* similar edge, of weight 0.85.
C27_Witness ==
    /\ last.op = "get_graph"
    /\ {last.all_docs[i].doc_id : i \in 1..Len(last.all_docs)} = {"g1", "g2", "g3"}
    /\ \E i \in 1..Len(last.response.edges) :
         /\ last.response.edges[i].relationship = "similar"
         /\ last.response.edges[i].weight = 850
    /\ Cardinality(EdgesOfKind(last.response.edges, "similar")) = 1

-----------------------------------------------------------------------------
\* DELETE /events/{event_id}

\* C28: deleting an event id that does not exist is reported as
\* success=true with deleted_count=0 and leaves the event store unchanged.
C28_DeleteOfMissingEventSucceeds ==
    [][(/\ last'.op = "delete_event"
        /\ \A r \in events : r.id # last'.id)
       => /\ last'.response.success
          /\ last'.response.deleted_count = 0
          /\ events' = events]_vars

-----------------------------------------------------------------------------
\* Failed ingestions

\* C30: a failed ingestion leaves no partial state. Whenever ingest_file
\* returns success=false, for any cause, the memory store and the event
\* store are the same as before the call.
C30_FailedIngestionChangesNothing ==
    [][(last'.op = "ingest_file" /\ ~last'.result.success)
       => collection' = collection /\ events' = events]_vars
====
